---- MODULE Spec2Model ----
(***************************************************************************)
(* cubism-core: the safe wrapper around the Cubism Core engine.            *)
(*                                                                         *)
(* The engine is an external collaborator reached through FFI.  What it    *)
(* answers is an input of each action: the format tag it reads from the    *)
(* bytes, the latest tag it supports, whether revive / initialize return   *)
(* null, the instance size, and the arrays it exposes for an asset.  The   *)
(* wrapper's own decisions (checks, error kinds, ownership, copies) are    *)
(* translated from src/src/moc.rs, version.rs, model.rs and flags.rs.      *)
(***************************************************************************)
EXTENDS Integers, Sequences, FiniteSets, TLC

VARIABLES
    latest,     \* the tag csmGetLatestMocVersion reports (fixed per linked engine)
    mocs,       \* moc slot -> the AlignedBytes of one Moc::new call and its Arc
    handles,    \* moc slot -> number of live Moc values not owned by a Model
    models,     \* model slot -> one Model value (its fields) or its absence
    mbufs,      \* model slot -> the instance buffer the engine initialized there
    last,       \* the last operation: its result and the engine calls it made
    writes,     \* number of setter calls made so far
    iter        \* the collection or iterator value the caller holds, if any

vars == <<latest, mocs, handles, models, mbufs, last, writes, iter>>

----------------------------------------------------------------------------
(* Bounds of the model *)

MaxMocs == 1        \* Moc::new calls explored
MaxModels == 2      \* Model values created (Model::new and Model::clone)
MaxHandles == 2     \* live Moc values per asset outside of Models
MaxWrites == 2      \* setter calls explored

MocSlots == 1..MaxMocs
ModelSlots == 1..MaxModels


----------------------------------------------------------------------------
(* src/src/version.rs *)

\* enum MocVersion, in declaration order (the derived Ord compares by it)
MocVersions == <<"Version30", "Version33", "Version40", "VersionUnknown">>

\* MocVersion::new
MocVersionNew(version) ==
    CASE version = 1 -> "Version30"
      [] version = 2 -> "Version33"
      [] version = 3 -> "Version40"
      [] OTHER -> "VersionUnknown"

\* discriminant of a MocVersion variant
MocVersionOrd(v) == CHOOSE i \in 1..Len(MocVersions) : MocVersions[i] = v

\* #[derive(PartialOrd, Ord)] : a > b
MocVersionGt(a, b) == MocVersionOrd(a) > MocVersionOrd(b)

\* #[derive(PartialOrd, Ord)] : a <= b
MocVersionLe(a, b) == MocVersionOrd(a) <= MocVersionOrd(b)

\* MocVersion::latest_version
LatestVersion(lat) == MocVersionNew(lat)

\* A u32 n is held as <<n \div 65536, n % 65536>>, two 16-bit limbs.
\* The accessors are (version & mask) >> shift, then the cast to u8 or u16.

\* CubismVersion::major : ((version & 0xFF00_0000) >> 24) as u8
CubismVersionMajor(version) == (version[1] \div 256) % 256

\* CubismVersion::minor shifted as major is
CubismVersionMinorShifted(version) == ((version[1] % 256) \div 256) % 256

\* CubismVersion::minor : ((version & 0x00FF_0000) >> 16) as u8
CubismVersionMinor(version) == (version[1] % 256) % 256

\* CubismVersion::patch : (version & 0x0000_FFFF) as u16
CubismVersionPatch(version) == version[2] % 65536

----------------------------------------------------------------------------
(* Values shared by the translations below *)

\* Option<T>
None == <<>>
Some(x) == <<x>>

\* Result<T, Error> ; an Error is its variant name and its payload
Err(kind, arg) == [ok |-> FALSE, kind |-> kind, arg |-> arg]
Ok(value) == [ok |-> TRUE, value |-> value]

\* a raw pointer handed out by the engine: null, or the array it points at
NullPtr == [null |-> TRUE, at |-> <<>>]
Ptr(arr) == [null |-> FALSE, at |-> arr]

----------------------------------------------------------------------------
(* The engine's answers for one asset: what the csmGet* accessors return    *)
(* for an instance initialized from it.  A count may be negative, a pointer *)
(* may be null, an array holds at least as many elements as its count.  A   *)
(* C string is the sequence of its bytes before the NUL, a Rust string the  *)
(* sequence of its code points: "A" is <<65>>, "P" <<80>>, "D" <<68>>.      *)

GoodAsset ==
    [ parameterCount |-> 1, partCount |-> 1, drawableCount |-> 1,
      parameterIds |-> Ptr(<<Ptr(<<65>>)>>),
      parameterMinimumValues |-> Ptr(<<0>>),
      parameterMaximumValues |-> Ptr(<<1>>),
      parameterDefaultValues |-> Ptr(<<0>>),
      partIds |-> Ptr(<<Ptr(<<80>>)>>),
      partParentPartIndices |-> Ptr(<<-1>>),
      drawableIds |-> Ptr(<<Ptr(<<68>>)>>),
      drawableConstantFlags |-> Ptr(<<4>>),
      drawableTextureIndices |-> Ptr(<<0>>),
      drawableMaskCounts |-> Ptr(<<0>>),
      drawableMasks |-> Ptr(<<Ptr(<<>>)>>),
      drawableVertexCounts |-> Ptr(<<1>>),
      drawableVertexUvs |-> Ptr(<<Ptr(<< <<0, 1>> >>)>>),
      drawableIndexCounts |-> Ptr(<<3>>),
      drawableIndices |-> Ptr(<<Ptr(<<0, 0, 0>>)>>),
      parameterValues |-> Ptr(<<0>>),
      partOpacities |-> Ptr(<<1>>) ]

\* the assets the lifecycle is explored with: a well-formed one and malformed
\* variants of it
LifecycleAssets ==
    << GoodAsset,
       [GoodAsset EXCEPT !.drawableIndexCounts = Ptr(<<4>>)],
       [GoodAsset EXCEPT !.partOpacities = NullPtr] >>

\* an asset of one parameter, two parts and two drawables; every array is
\* long enough for the counts the engine reports for it
ExtractBase ==
    [ parameterCount |-> 1, partCount |-> 2, drawableCount |-> 2,
      parameterIds |-> Ptr(<<Ptr(<<65>>)>>),
      parameterMinimumValues |-> Ptr(<<0>>),
      parameterMaximumValues |-> Ptr(<<1>>),
      parameterDefaultValues |-> Ptr(<<0>>),
      partIds |-> Ptr(<<Ptr(<<80>>), Ptr(<<81>>)>>),
      partParentPartIndices |-> Ptr(<<-1, 0>>),
      drawableIds |-> Ptr(<<Ptr(<<68>>), Ptr(<<69>>)>>),
      drawableConstantFlags |-> Ptr(<<4, 0>>),
      drawableTextureIndices |-> Ptr(<<0, 0>>),
      drawableMaskCounts |-> Ptr(<<0, 0>>),
      drawableMasks |-> Ptr(<<Ptr(<<>>), Ptr(<<>>)>>),
      drawableVertexCounts |-> Ptr(<<1, 1>>),
      drawableVertexUvs |-> Ptr(<<Ptr(<< <<0, 1>> >>), Ptr(<< <<0, 1>> >>)>>),
      drawableIndexCounts |-> Ptr(<<3, 3>>),
      drawableIndices |-> Ptr(<<Ptr(<<0, 0, 0, 0, 0, 0>>), Ptr(<<0, 0, 0, 0, 0, 0>>)>>),
      parameterValues |-> Ptr(<<0>>),
      partOpacities |-> Ptr(<<1, 1>>) ]

\* the asset for which the engine reports the three counts, the two part
\* parent indices, the two constant flag bytes and the two index counts of c
ExtractAsset(c) ==
    [ExtractBase EXCEPT !.parameterCount = c[1][1], !.partCount = c[1][2],
                        !.drawableCount = c[1][3],
                        !.partParentPartIndices = Ptr(c[2]),
                        !.drawableConstantFlags = Ptr(c[3]),
                        !.drawableIndexCounts = Ptr(c[4])]

\* what the engine reports: well-formed answers, one malformed answer at
\* either position, and several malformed answers at once
ExtractCases ==
    << << <<1, 2, 2>>, <<-1, 0>>, <<4, 0>>, <<3, 3>> >>,
       \* counts
       << <<-1, 2, 2>>, <<-1, 0>>, <<4, 0>>, <<3, 3>> >>,
       << <<1, -1, 2>>, <<-1, 0>>, <<4, 0>>, <<3, 3>> >>,
       << <<1, 2, -1>>, <<-1, 0>>, <<4, 0>>, <<3, 3>> >>,
       << <<-1, -1, 2>>, <<-1, 0>>, <<4, 0>>, <<3, 3>> >>,
       << <<1, -2, -1>>, <<-1, 0>>, <<4, 0>>, <<3, 3>> >>,
       << <<-1, 2, -3>>, <<-1, 0>>, <<4, 0>>, <<3, 3>> >>,
       << <<1, 2, -1>>, <<-1, -2>>, <<16, 0>>, <<4, 3>> >>,
       \* part parent indices
       << <<1, 2, 2>>, <<-1, -1>>, <<4, 0>>, <<3, 3>> >>,
       << <<1, 2, 2>>, <<1, -1>>, <<4, 0>>, <<3, 3>> >>,
       << <<1, 2, 2>>, <<-1, 1>>, <<4, 0>>, <<3, 3>> >>,
       << <<1, 2, 2>>, <<-2, -1>>, <<4, 0>>, <<3, 3>> >>,
       << <<1, 2, 2>>, <<-1, -2>>, <<4, 0>>, <<3, 3>> >>,
       << <<1, 2, 2>>, <<-1, 2>>, <<4, 0>>, <<3, 3>> >>,
       << <<1, 2, 2>>, <<5, -1>>, <<4, 0>>, <<3, 3>> >>,
       << <<1, 2, 2>>, <<2, -3>>, <<4, 0>>, <<3, 3>> >>,
       << <<1, 1, 2>>, <<1, 0>>, <<4, 0>>, <<3, 3>> >>,
       \* constant flag bytes
       << <<1, 2, 2>>, <<-1, 0>>, <<15, 8>>, <<3, 3>> >>,
       << <<1, 2, 2>>, <<-1, 0>>, <<16, 4>>, <<3, 3>> >>,
       << <<1, 2, 2>>, <<-1, 0>>, <<4, 16>>, <<3, 3>> >>,
       << <<1, 2, 2>>, <<-1, 0>>, <<0, 20>>, <<3, 3>> >>,
       << <<1, 2, 2>>, <<-1, 0>>, <<255, 32>>, <<3, 3>> >>,
       << <<1, 2, 1>>, <<-1, 0>>, <<1, 128>>, <<3, 3>> >>,
       << <<1, 2, 2>>, <<-1, -2>>, <<4, 64>>, <<3, 3>> >>,
       \* index counts
       << <<1, 2, 2>>, <<-1, 0>>, <<4, 0>>, <<0, 6>> >>,
       << <<1, 2, 2>>, <<-1, 0>>, <<4, 0>>, <<4, 3>> >>,
       << <<1, 2, 2>>, <<-1, 0>>, <<4, 0>>, <<3, 4>> >>,
       << <<1, 2, 2>>, <<-1, 0>>, <<4, 0>>, <<-3, 3>> >>,
       << <<1, 2, 2>>, <<-1, 0>>, <<4, 0>>, <<3, -1>> >>,
       << <<1, 2, 2>>, <<-1, 0>>, <<4, 0>>, <<5, 2>> >>,
       << <<1, 2, 1>>, <<-1, 0>>, <<4, 0>>, <<3, 4>> >>,
       << <<1, 2, 2>>, <<-1, 0>>, <<4, 16>>, <<4, 3>> >>,
       << <<1, 2, 2>>, <<-1, 7>>, <<4, 0>>, <<3, 1>> >> >>

ExtractAssets == [i \in 1..Len(ExtractCases) |-> ExtractAsset(ExtractCases[i])]

\* ExtractBase with two parameters
TwoParameters ==
    [ExtractBase EXCEPT !.parameterCount = 2,
                        !.parameterIds = Ptr(<<Ptr(<<65>>), Ptr(<<66>>)>>),
                        !.parameterMinimumValues = Ptr(<<0, 0>>),
                        !.parameterMaximumValues = Ptr(<<1, 1>>),
                        !.parameterDefaultValues = Ptr(<<0, 1>>),
                        !.parameterValues = Ptr(<<0, 1>>)]

\* the identifiers the engine may report: the same identifier at two
\* positions, a null array, a null element, bytes that are not UTF-8 (0xFF,
\* a lone continuation byte, a lead byte without continuation) and a
\* two-byte sequence that is; a three-byte and a four-byte sequence, and a
\* three-byte sequence cut after its second byte
IdAssets ==
    << [TwoParameters EXCEPT !.parameterIds = Ptr(<<Ptr(<<65>>), Ptr(<<65>>)>>)],
       [ExtractBase EXCEPT !.partIds = Ptr(<<Ptr(<<80>>), Ptr(<<80>>)>>)],
       [ExtractBase EXCEPT !.drawableIds = Ptr(<<Ptr(<<68>>), Ptr(<<68>>)>>)],
       [ExtractBase EXCEPT !.parameterIds = NullPtr],
       [ExtractBase EXCEPT !.partIds = NullPtr],
       [ExtractBase EXCEPT !.drawableIds = NullPtr],
       [TwoParameters EXCEPT !.parameterIds = Ptr(<<NullPtr, Ptr(<<66>>)>>)],
       [ExtractBase EXCEPT !.partIds = Ptr(<<Ptr(<<80>>), NullPtr>>)],
       [ExtractBase EXCEPT !.drawableIds = Ptr(<<NullPtr, NullPtr>>)],
       [TwoParameters EXCEPT !.parameterIds = Ptr(<<Ptr(<<65>>), Ptr(<<65, 255>>)>>)],
       [ExtractBase EXCEPT !.partIds = Ptr(<<Ptr(<<128>>), Ptr(<<81>>)>>)],
       [ExtractBase EXCEPT !.drawableIds = Ptr(<<Ptr(<<195>>), Ptr(<<255>>)>>)],
       [ExtractBase EXCEPT !.partIds = Ptr(<<Ptr(<<195, 169>>), Ptr(<<81>>)>>)],
       TwoParameters,
       [ExtractBase EXCEPT !.partIds = Ptr(<<Ptr(<<226, 130, 172>>), Ptr(<<81>>)>>)],
       [ExtractBase EXCEPT
           !.drawableIds = Ptr(<<Ptr(<<240, 159, 152, 128>>), Ptr(<<226, 130>>)>>)] >>

\* ExtractBase with three parameters
ThreeParameters ==
    [ExtractBase EXCEPT !.parameterCount = 3,
                        !.parameterIds = Ptr(<<Ptr(<<65>>), Ptr(<<66>>), Ptr(<<67>>)>>),
                        !.parameterMinimumValues = Ptr(<<0, 0, 0>>),
                        !.parameterMaximumValues = Ptr(<<1, 1, 1>>),
                        !.parameterDefaultValues = Ptr(<<0, 1, 0>>),
                        !.parameterValues = Ptr(<<0, 1, 0>>)]

\* the assets whose collections are walked: three parameters, two parts and
\* two drawables, the second drawable with texture index -1 and the mask -1;
\* no parameter at all; the same identifier twice
IterAssets ==
    << [ThreeParameters EXCEPT
           !.drawableTextureIndices = Ptr(<<0, -1>>),
           !.drawableMaskCounts = Ptr(<<0, 1>>),
           !.drawableMasks = Ptr(<<Ptr(<<>>), Ptr(<<-1>>)>>)],
       [ExtractBase EXCEPT !.parameterCount = 0],
       [ThreeParameters EXCEPT
           !.parameterIds = Ptr(<<Ptr(<<65>>), Ptr(<<66>>), Ptr(<<65>>)>>),
           !.drawableIds = Ptr(<<Ptr(<<68>>), Ptr(<<68>>)>>)] >>

\* every asset explored; an asset is named by its position
Assets == LifecycleAssets \o ExtractAssets \o IdAssets \o IterAssets

AssetIds == 1..Len(LifecycleAssets)
ExtractAssetIds ==
    (Len(LifecycleAssets) + 1)..(Len(LifecycleAssets) + Len(ExtractAssets))
IdAssetIds ==
    (Len(LifecycleAssets) + Len(ExtractAssets) + 1)..
        (Len(LifecycleAssets) + Len(ExtractAssets) + Len(IdAssets))
IterAssetIds ==
    (Len(LifecycleAssets) + Len(ExtractAssets) + Len(IdAssets) + 1)..Len(Assets)

----------------------------------------------------------------------------
(* src/src/model.rs : StaticData::new and its helpers *)

\* from_raw_parts(ptr, len)
from_raw_parts(arr, len) == [i \in 1..len |-> arr[i]]

\* get_slice / get_mut_slice : None for a null pointer
get_slice(ptr, len) == IF ptr.null THEN None ELSE Some(from_raw_parts(ptr.at, len))

\* check_count letting every count through
check_count_unchecked(i) == Some(i)

\* check_count
check_count(i) == IF i < 0 THEN None ELSE Some(i)

\* CStr::from_ptr(ptr).to_string_lossy().into_owned() : UTF-8 decoding of
\* the bytes before the NUL into code points.  A well-formed sequence of
\* width 1 to 4 (lead 0x00..0x7F, 0xC2..0xDF, 0xE0..0xEF, 0xF0..0xF4; the
\* second byte within the range its lead allows, the others 0x80..0xBF)
\* gives its code point; otherwise the longest prefix of such a sequence
\* that is there, at least one byte, gives one U+FFFD.  chunk[i] is the
\* sequence or prefix that starts at byte i, from[i] the decoding of the
\* bytes from i on.
ReplacementCharacter == 65533
to_string_lossy(cstr) ==
    LET decoded(s) ==
          LET chunk[i \in 1..Len(s)] ==
                LET b == s[i]
                    width == IF b < 128 THEN 1
                             ELSE IF b \in 194..223 THEN 2
                             ELSE IF b \in 224..239 THEN 3
                             ELSE IF b \in 240..244 THEN 4
                             ELSE 0
                    second == CASE b = 224 -> 160..191
                                [] b = 237 -> 128..159
                                [] b = 240 -> 144..191
                                [] b = 244 -> 128..143
                                [] OTHER -> 128..191
                    fits(k) == /\ i + k - 1 <= Len(s)
                               /\ s[i + k - 1] \in (IF k = 2 THEN second ELSE 128..191)
                    taken == IF width <= 1 THEN 1
                             ELSE CHOOSE k \in 1..width :
                                    /\ \A j \in 2..k : fits(j)
                                    /\ k = width \/ ~fits(k + 1)
                    char == CASE width = 1 -> b
                              [] width = 2 -> (b - 192) * 64 + (s[i + 1] - 128)
                              [] width = 3 -> (b - 224) * 4096 + (s[i + 1] - 128) * 64
                                              + (s[i + 2] - 128)
                              [] width = 4 -> (b - 240) * 262144
                                              + (s[i + 1] - 128) * 4096
                                              + (s[i + 2] - 128) * 64 + (s[i + 3] - 128)
                IN  [taken |-> taken,
                     char |-> IF width >= 1 /\ taken = width THEN char
                              ELSE ReplacementCharacter]
              from[i \in 1..(Len(s) + 1)] ==
                IF i > Len(s) THEN <<>>
                ELSE <<chunk[i].char>> \o from[i + chunk[i].taken]
          IN  from[1]
    IN  CHOOSE chars \in {decoded(s) : s \in {cstr}} : TRUE

\* get_ids : None if the array or any element of it is null
get_ids(ptr, len) ==
    IF ptr.null THEN None
    ELSE IF \E i \in 1..len : ptr.at[i].null THEN None
    ELSE Some([i \in 1..len |-> to_string_lossy(ptr.at[i].at)])

\* get_ids_map : HashMap::from_iter over the (id, index) pairs in index order;
\* a later pair with the same key replaces the earlier one.  Indices are
\* 0-based as in the code.
get_ids_map(ids) ==
    [s \in {ids[i] : i \in 1..Len(ids)} |->
        (CHOOSE i \in 1..Len(ids) :
            ids[i] = s /\ \A j \in 1..Len(ids) : ids[j] = s => j <= i) - 1]

\* PartParent::new
PartParentNew(index) ==
    IF index < -1 THEN Err("InvalidDataCount", <<"part parent">>)
    ELSE IF index = -1 THEN Ok(<<"Root">>)
    ELSE Ok(<<"Parent", index>>)

\* ConstantFlags::from_bits_truncate in its place: undefined bits are dropped
ConstantFlagsFromBitsTruncate(f) == Some(f % 16)

\* ConstantFlags::from_bits : None when a bit outside the four masks is set
ConstantFlagsFromBits(f) == IF f \div 16 # 0 THEN None ELSE Some(f)

\* Iterator::collect::<Result<Vec<_>>>() : the first Err in index order, or all values
CollectResults(rs) ==
    IF \E i \in 1..Len(rs) : ~rs[i].ok
    THEN rs[CHOOSE i \in 1..Len(rs) : ~rs[i].ok /\ \A j \in 1..(i - 1) : rs[j].ok]
    ELSE Ok([i \in 1..Len(rs) |-> rs[i].value])

\* the closure mapped over (mask count, mask pointer)
MaskOf(c, p) ==
    IF c < 0 THEN Err("InvalidDataCount", <<"drawable mask">>)
    ELSE IF p.null THEN Err("GetDataError", <<"drawable masks because null pointer">>)
    ELSE Ok(from_raw_parts(p.at, c))

\* the closure mapped over (vertex count, vertex uv pointer)
VertexUvsOf(c, p) ==
    IF p.null THEN Err("GetDataError", <<"drawable vertex uvs because null pointer">>)
    ELSE Ok(from_raw_parts(p.at, c))

\* the closure with the multiple-of-3 test left out
IndicesOfNegativeOnly(c, p) ==
    IF c < 0 THEN Err("InvalidDataCount", <<"drawable indices">>)
    ELSE IF p.null THEN Err("GetDataError", <<"drawable indices because null pointer">>)
    ELSE Ok(from_raw_parts(p.at, c))

\* the closure mapped over (index count, index pointer)
IndicesOf(c, p) ==
    IF c < 0 \/ c % 3 # 0 THEN Err("InvalidDataCount", <<"drawable indices">>)
    ELSE IF p.null THEN Err("GetDataError", <<"drawable indices because null pointer">>)
    ELSE Ok(from_raw_parts(p.at, c))

\* StaticData::new : the facet extraction over a freshly initialized instance
\* whose engine accessors answer as asset a says.  The checks run in the
\* order of the code and the first failure is returned.
StaticDataNew(a) ==
    LET pc == check_count(a.parameterCount)
        qc == check_count(a.partCount)
        dc == check_count(a.drawableCount)
        parameter_count == pc[1]
        part_count == qc[1]
        drawable_count == dc[1]
        parameter_ids == get_ids(a.parameterIds, parameter_count)
        min_values == get_slice(a.parameterMinimumValues, parameter_count)
        max_values == get_slice(a.parameterMaximumValues, parameter_count)
        default_values == get_slice(a.parameterDefaultValues, parameter_count)
        part_ids == get_ids(a.partIds, part_count)
        parents_raw == get_slice(a.partParentPartIndices, part_count)
        parents == CollectResults([i \in 1..part_count |-> PartParentNew(parents_raw[1][i])])
        drawable_ids == get_ids(a.drawableIds, drawable_count)
        flags_raw == get_slice(a.drawableConstantFlags, drawable_count)
        flags == CollectResults([i \in 1..drawable_count |->
                    IF ConstantFlagsFromBits(flags_raw[1][i]) = None
                    THEN Err("InvalidFlags", <<"constant", flags_raw[1][i]>>)
                    ELSE Ok(ConstantFlagsFromBits(flags_raw[1][i])[1])])
        textures == get_slice(a.drawableTextureIndices, drawable_count)
        mask_counts == get_slice(a.drawableMaskCounts, drawable_count)
        mask_ptrs == get_slice(a.drawableMasks, drawable_count)
        masks == CollectResults([i \in 1..drawable_count |->
                    MaskOf(mask_counts[1][i], mask_ptrs[1][i])])
        vertex_raw == get_slice(a.drawableVertexCounts, drawable_count)
        uv_ptrs == get_slice(a.drawableVertexUvs, drawable_count)
        uvs == CollectResults([i \in 1..drawable_count |->
                    VertexUvsOf(vertex_raw[1][i], uv_ptrs[1][i])])
        index_counts == get_slice(a.drawableIndexCounts, drawable_count)
        index_ptrs == get_slice(a.drawableIndices, drawable_count)
        indices == CollectResults([i \in 1..drawable_count |->
                    IndicesOf(index_counts[1][i], index_ptrs[1][i])])
    IN  IF pc = None THEN Err("InvalidDataCount", <<"parameter">>)
        ELSE IF qc = None THEN Err("InvalidDataCount", <<"part">>)
        ELSE IF dc = None THEN Err("InvalidDataCount", <<"drawable">>)
        ELSE IF parameter_ids = None THEN Err("GetDataError", <<"parameter ids">>)
        ELSE IF min_values = None THEN Err("GetDataError", <<"parameter min values">>)
        ELSE IF max_values = None THEN Err("GetDataError", <<"parameter max values">>)
        ELSE IF default_values = None
             THEN Err("GetDataError", <<"parameter default values">>)
        ELSE IF part_ids = None THEN Err("GetDataError", <<"part ids">>)
        ELSE IF parents_raw = None THEN Err("GetDataError", <<"part parent indices">>)
        ELSE IF ~parents.ok THEN parents
        ELSE IF drawable_ids = None THEN Err("GetDataError", <<"drawable ids">>)
        ELSE IF flags_raw = None THEN Err("GetDataError", <<"drawable constant flags">>)
        ELSE IF ~flags.ok THEN flags
        ELSE IF textures = None THEN Err("GetDataError", <<"drawable texture indices">>)
        ELSE IF mask_counts = None THEN Err("GetDataError", <<"drawable mask counts">>)
        ELSE IF mask_ptrs = None THEN Err("GetDataError", <<"drawable masks">>)
        ELSE IF ~masks.ok THEN masks
        ELSE IF vertex_raw = None THEN Err("GetDataError", <<"drawable vertex counts">>)
        ELSE IF \E i \in 1..drawable_count : check_count(vertex_raw[1][i]) = None
             THEN Err("InvalidDataCount", <<"drawable vertex">>)
        ELSE IF uv_ptrs = None THEN Err("GetDataError", <<"drawable vertex uvs">>)
        ELSE IF ~uvs.ok THEN uvs
        ELSE IF index_counts = None THEN Err("GetDataError", <<"drawable index counts">>)
        ELSE IF index_ptrs = None THEN Err("GetDataError", <<"drawable indices">>)
        ELSE IF ~indices.ok THEN indices
        ELSE Ok([ parameter_ids |-> parameter_ids[1],
                  parameter_ids_map |-> get_ids_map(parameter_ids[1]),
                  parameter_min_values |-> min_values[1],
                  parameter_max_values |-> max_values[1],
                  parameter_default_values |-> default_values[1],
                  part_ids |-> part_ids[1],
                  part_ids_map |-> get_ids_map(part_ids[1]),
                  part_parent_indices |-> parents.value,
                  drawable_ids |-> drawable_ids[1],
                  drawable_ids_map |-> get_ids_map(drawable_ids[1]),
                  drawable_constant_flags |-> flags.value,
                  drawable_texture_indices |-> textures[1],
                  drawable_marks |-> masks.value,
                  drawable_vertex_counts |-> vertex_raw[1],
                  drawable_vertex_uvs |-> uvs.value,
                  drawable_indices |-> indices.value ])

\* MutableData::new : the two caller-writable arrays of the instance buffer
MutableDataNew(a, parameter_count, part_count) ==
    IF get_slice(a.parameterValues, parameter_count) = None
    THEN Err("GetDataError", <<"parameter values">>)
    ELSE IF get_slice(a.partOpacities, part_count) = None
    THEN Err("GetDataError", <<"part opacities">>)
    ELSE Ok([ parameter_values |-> get_slice(a.parameterValues, parameter_count)[1],
              part_opacities |-> get_slice(a.partOpacities, part_count)[1] ])

----------------------------------------------------------------------------
(* src/src/moc.rs *)

\* A byte length n is held as <<n \div 65536, n % 65536>>, two 16-bit limbs.
LenGt(x, y) == x[1] > y[1] \/ (x[1] = y[1] /\ x[2] > y[2])

\* c_uint::MAX = 2^32 - 1
CUintMax == <<65535, 65535>>

\* the inputs of Moc::new: the length of the byte slice and what the engine
\* answers for those bytes (the tag csmGetMocVersion reads, whether
\* csmReviveMocInPlace returns non-null, the asset the bytes describe)
Lens == {<<0, 0>>, <<0, 64>>, <<65536, 0>>}
Tags == {0, 1, 3}
LatestTags == {2, 3, 4}
Bytes == [len : Lens, tag : Tags, reviveOk : BOOLEAN, asset : AssetIds]

\* csmGetMocVersion over a buffer: the version field of the header of the
\* bytes.  csmReviveMocInPlace rewrites the offsets behind the header into
\* pointers (revived) and leaves the header as it found it, so the engine
\* reads the same tag from the raw and from the revived bytes.
EngineGetMocVersion(data) == data.tag

\* get_moc_version : csmGetMocVersion over the pointer and the length of the
\* buffer
get_moc_version(data) == EngineGetMocVersion(data)

\* a moc slot no Moc::new call has used yet
NoMoc == [st |-> "unused", tag |-> 0, asset |-> 0,
          revives |-> 0, revived |-> FALSE, strong |-> 0, frees |-> 0]

\* AlignedBytes::new_from_slice(moc3_data, ALIGN_OF_MOC)
NewFromSlice(bytes) ==
    [NoMoc EXCEPT !.st = "local", !.tag = bytes.tag, !.asset = bytes.asset]

\* dropping the AlignedBytes of a failed Moc::new at its return
DropLocal(data) ==
    [NoMoc EXCEPT !.st = "failed", !.revives = data.revives,
                  !.revived = data.revived, !.frees = data.frees + 1]

\* Arc::new(data)
ArcNew(data) == [data EXCEPT !.st = "live", !.strong = 1]

\* Arc::clone, as derived for Moc
ArcClone(arc) == [arc EXCEPT !.strong = @ + 1]

\* dropping one Arc: the AlignedBytes is released with the last of them
ArcDrop(arc) ==
    IF arc.strong = 1
    THEN [NoMoc EXCEPT !.st = "freed", !.revives = arc.revives,
                       !.revived = arc.revived, !.frees = arc.frees + 1]
    ELSE [arc EXCEPT !.strong = @ - 1]

\* the version test of Moc::new, on raw tags instead of classified versions
VersionRejectedRawTags(version, lat) == version > lat

\* the version test of Moc::new, with the comparison turned around
VersionRejectedFlipped(version, lat) ==
    MocVersionGt(LatestVersion(lat), MocVersionNew(version))

\* the version test of Moc::new
VersionRejected(version, lat) ==
    MocVersionGt(MocVersionNew(version), LatestVersion(lat))

\* csmReviveMocInPlace over the buffer: one more call, and its answer
EngineRevive(data, nonNull) == [data EXCEPT !.revives = @ + 1, !.revived = nonNull]

\* the is_null() test on the pointer revive returned, left out
ReviveFailedNever(data) == FALSE

\* the is_null() test on the pointer revive returned
ReviveFailed(data) == ~data.revived

\* Moc::new : the result, the buffer as the call leaves it, the engine calls made
MocNew(bytes, lat) ==
    IF LenGt(bytes.len, CUintMax)
    THEN [res |-> Err("MocDataTooLarge", <<>>),
          data |-> [NoMoc EXCEPT !.st = "failed"], calls |-> <<>>]
    ELSE LET data == NewFromSlice(bytes)
             version == get_moc_version(data)
         IN  IF VersionRejected(version, lat)
             THEN [res |-> Err("InvalidMocVersion", <<version>>),
                   data |-> DropLocal(data),
                   calls |-> <<"csmGetMocVersion", "csmGetLatestMocVersion">>]
             ELSE IF ReviveFailed(EngineRevive(data, bytes.reviveOk))
             THEN [res |-> Err("InvalidMocData", <<>>),
                   data |-> DropLocal(EngineRevive(data, bytes.reviveOk)),
                   calls |-> <<"csmGetMocVersion", "csmGetLatestMocVersion",
                               "csmReviveMocInPlace">>]
             ELSE [res |-> Ok(<<>>),
                   data |-> ArcNew(EngineRevive(data, bytes.reviveOk)),
                   calls |-> <<"csmGetMocVersion", "csmGetLatestMocVersion",
                               "csmReviveMocInPlace">>]

\* Moc::version
MocVersion(arc) == MocVersionNew(get_moc_version(arc))

----------------------------------------------------------------------------
(* The engine's side of an instance buffer.  The drawable outputs an update *)
(* computes are a function of the parameter values and part opacities it    *)
(* read; they are represented by those inputs.                              *)

\* the inputs of init_model: the size csmGetSizeofModel reports and whether
\* csmInitializeModelInPlace returns non-null
Sizes == {0, 128}

\* the values callers write through the setters
ParameterInputs == {0, 2}
OpacityInputs == {0}

\* synced: update_model ran on the buffer and no setter wrote to it since
\* opacities: the drawable opacities, in units of 1e-4
\* draw_orders, render_orders: the draw order and the render order of every
\* drawable
\* positions: for every drawable the array of vertex positions the engine's
\* pointer leads to, a position being <<x, y>>
\* absent: the dynamic drawable arrays for which the engine's accessor
\* answers a null pointer
NoBuf == [st |-> "none", asset |-> 0, pv |-> <<>>, po |-> <<>>,
          flags |-> <<>>, out |-> <<>>, synced |-> FALSE, opacities |-> <<>>,
          draw_orders |-> <<>>, render_orders |-> <<>>, positions |-> <<>>,
          absent |-> {}]

Clamp(v, lo, hi) == IF v < lo THEN lo ELSE IF v > hi THEN hi ELSE v

\* csmInitializeModelInPlace returning non-null: the buffer it leaves.  pv
\* and po are the parameter values and the part opacities the instance has:
\* as many as the counts the engine reports for it.  Every drawable has
\* draw order 0, render order 0 and as many vertex positions as the vertex
\* count the engine reports for it, vertex v of drawable i at <<v, i>>.
EngineInitialize(id) ==
    LET a == Assets[id]
        pv == IF a.parameterValues.null THEN <<>>
              ELSE from_raw_parts(a.parameterValues.at, a.parameterCount)
        po == IF a.partOpacities.null THEN <<>>
              ELSE from_raw_parts(a.partOpacities.at, a.partCount)
    IN  [st |-> "alloc", asset |-> id,
         pv |-> pv, po |-> po,
         flags |-> [i \in 1..a.drawableCount |-> 1],
         opacities |-> [i \in 1..a.drawableCount |-> 10000],
         draw_orders |-> [i \in 1..a.drawableCount |-> 0],
         render_orders |-> [i \in 1..a.drawableCount |-> 0],
         positions |-> [i \in 1..a.drawableCount |->
                          [v \in 1..a.drawableVertexCounts.at[i] |-> <<v - 1, i - 1>>]],
         absent |-> {},
         out |-> <<pv, po>>,
         synced |-> FALSE]

\* OPACITY_DID_CHANGE + VERTEX_POSITIONS_DID_CHANGE
DidChange == 36

\* csmResetDrawableDynamicFlags : clears the did-change bits, keeps IsVisible
EngineResetDynamicFlags(buf) ==
    [buf EXCEPT !.flags = [i \in DOMAIN @ |-> @[i] % 2]]

\* the dynamic flags csmUpdateModel computes for the drawables of asset a
\* from the inputs it read: a function of those inputs alone, one that tells
\* the values the asset starts with (IS_VISIBLE only) from every other input
\* (IS_VISIBLE and the did-change bits of opacity and vertex positions)
EngineDynamicFlags(a, pv, po) ==
    LET start == <<IF a.parameterValues.null THEN <<>>
                   ELSE from_raw_parts(a.parameterValues.at, a.parameterCount),
                   IF a.partOpacities.null THEN <<>>
                   ELSE from_raw_parts(a.partOpacities.at, a.partCount)>>
    IN  [i \in 1..a.drawableCount |->
           IF <<pv, po>> = start THEN 1 ELSE 1 + DidChange]

\* csmUpdateModel : clamps the parameter values to their range and recomputes
\* the drawable outputs and the dynamic flags from the parameter values and
\* the part opacities; what the buffer held of them before plays no part
EngineUpdate(buf) ==
    LET a == Assets[buf.asset]
        pv == [i \in DOMAIN buf.pv |->
                 Clamp(buf.pv[i], a.parameterMinimumValues.at[i],
                       a.parameterMaximumValues.at[i])]
    IN  [buf EXCEPT !.pv = pv, !.out = <<pv, buf.po>>,
                    !.flags = EngineDynamicFlags(a, pv, buf.po)]

----------------------------------------------------------------------------
(* src/src/model.rs : Model *)

NoModel == [st |-> "none", moc |-> 0, model |-> 0, mut_data |-> 0,
            static_data |-> <<>>]

\* init_model, with the is_null() test on the initialized pointer left out
InitModelUnchecked(asset, size, initOk) == Ok(EngineInitialize(asset))

\* init_model
InitModel(asset, size, initOk) ==
    IF ~initOk THEN Err("InitializeModelError", <<>>)
    ELSE Ok(EngineInitialize(asset))

InitCalls == <<"csmGetSizeofModel", "csmInitializeModelInPlace">>

\* Model::new(moc) into model slot m : the result, the Model value and its
\* instance buffer on success, the calls made
ModelNew(b, asset, size, initOk, m) ==
    LET from(model, static_data) ==
          LET mut_data == MutableDataNew(Assets[asset],
                                         Len(static_data.value.parameter_ids),
                                         Len(static_data.value.part_ids))
          IN  IF ~model.ok
              THEN [res |-> model, calls |-> InitCalls]
              ELSE IF ~static_data.ok
              THEN [res |-> static_data, calls |-> InitCalls \o <<"StaticData::new">>]
              ELSE IF ~mut_data.ok
              THEN [res |-> mut_data,
                    calls |-> InitCalls \o <<"StaticData::new", "MutableData::new">>]
              ELSE [res |-> Ok(<<>>),
                    calls |-> InitCalls \o <<"StaticData::new", "MutableData::new">>,
                    buf |-> model.value,
                    self |-> [st |-> "alive", moc |-> b, model |-> m, mut_data |-> m,
                              static_data |-> static_data.value]]
    IN  from(InitModel(asset, size, initOk), StaticDataNew(Assets[asset]))

\* Model::moc, handing out the Arc without cloning it
ModelMocNotRetained(arc) == arc

\* Model::moc : self.moc.clone()
ModelMoc(arc) == ArcClone(arc)

\* Model::parameter_count / part_count / drawable_count
parameter_count(self) == Len(self.static_data.parameter_ids)
part_count(self) == Len(self.static_data.part_ids)
drawable_count(self) == Len(self.static_data.drawable_ids)

\* Model::get_parameter_id_index / get_part_id_index
get_parameter_id_index(self, id) ==
    IF id \in DOMAIN self.static_data.parameter_ids_map
    THEN Some(self.static_data.parameter_ids_map[id]) ELSE None
get_part_id_index(self, id) ==
    IF id \in DOMAIN self.static_data.part_ids_map
    THEN Some(self.static_data.part_ids_map[id]) ELSE None

\* Model::get_drawable_id_index
get_drawable_id_index(self, id) ==
    IF id \in DOMAIN self.static_data.drawable_ids_map
    THEN Some(self.static_data.drawable_ids_map[id]) ELSE None

\* Model::set_parameter_values / set_part_opacities : copy_from_slice
\* panics, writing nothing, when values is not as long as the slice
set_parameter_values(buf, values) ==
    IF Len(values) # Len(buf.pv) THEN [panic |-> TRUE, buf |-> buf]
    ELSE [panic |-> FALSE, buf |-> [buf EXCEPT !.pv = values]]
set_part_opacities(buf, values) ==
    IF Len(values) # Len(buf.po) THEN [panic |-> TRUE, buf |-> buf]
    ELSE [panic |-> FALSE, buf |-> [buf EXCEPT !.po = values]]

\* writing value through Model::parameter_values_mut / part_opacities_mut at
\* an index of the slice
parameter_values_mut(buf, index, value) == [buf EXCEPT !.pv[index + 1] = value]
part_opacities_mut(buf, index, value) == [buf EXCEPT !.po[index + 1] = value]

\* Model::set_parameter_value_index_unchecked, with the value brought into
\* the parameter's range before it is stored
set_parameter_value_index_clamped(buf, index, value) ==
    [ret |-> Some(buf.pv[index + 1]),
     buf |-> [buf EXCEPT !.pv[index + 1] =
                 Clamp(value, Assets[buf.asset].parameterMinimumValues.at[index + 1],
                       Assets[buf.asset].parameterMaximumValues.at[index + 1])]]

\* Model::set_parameter_value_index_unchecked : mem::replace at the index
set_parameter_value_index_unchecked(buf, index, value) ==
    [ret |-> Some(buf.pv[index + 1]), buf |-> [buf EXCEPT !.pv[index + 1] = value]]

\* Model::set_parameter_value_index, with <= in the place of < : the index
\* one past the end reads whatever lies behind the values
set_parameter_value_index_off_by_one(self, buf, index, value) ==
    IF index < Len(buf.pv)
    THEN set_parameter_value_index_unchecked(buf, index, value)
    ELSE IF index = Len(buf.pv)
    THEN [ret |-> Some(0), buf |-> buf]
    ELSE [ret |-> None, buf |-> buf]

\* Model::set_parameter_value_index
set_parameter_value_index(self, buf, index, value) ==
    IF index < parameter_count(self)
    THEN set_parameter_value_index_unchecked(buf, index, value)
    ELSE [ret |-> None, buf |-> buf]

\* Model::set_parameter_value
set_parameter_value(self, buf, id, value) ==
    IF get_parameter_id_index(self, id) = None
    THEN [ret |-> None, buf |-> buf]
    ELSE set_parameter_value_index_unchecked(buf, get_parameter_id_index(self, id)[1], value)

\* Model::parameter_value_index : assert!(index < parameter_count), then the
\* unchecked setter; panic marks the failed assertion
parameter_value_index(self, buf, index, value) ==
    IF index < parameter_count(self)
    THEN [panic |-> FALSE] @@ set_parameter_value_index_unchecked(buf, index, value)
    ELSE [panic |-> TRUE, ret |-> None, buf |-> buf]

\* Model::set_part_opacity_index_unchecked, returning the value it stored
set_part_opacity_index_returning_new(buf, index, value) ==
    [ret |-> Some(value), buf |-> [buf EXCEPT !.po[index + 1] = value]]

\* Model::set_part_opacity_index_unchecked
set_part_opacity_index_unchecked(buf, index, value) ==
    [ret |-> Some(buf.po[index + 1]), buf |-> [buf EXCEPT !.po[index + 1] = value]]

\* Model::set_part_opacity_index
set_part_opacity_index(self, buf, index, value) ==
    IF index < part_count(self)
    THEN set_part_opacity_index_unchecked(buf, index, value)
    ELSE [ret |-> None, buf |-> buf]

\* Model::set_part_opacity
set_part_opacity(self, buf, id, value) ==
    IF get_part_id_index(self, id) = None
    THEN [ret |-> None, buf |-> buf]
    ELSE set_part_opacity_index_unchecked(buf, get_part_id_index(self, id)[1], value)

\* Model::part_opacity_index : assert!(index < part_count), then the
\* unchecked setter
part_opacity_index(self, buf, index, value) ==
    IF index < part_count(self)
    THEN [panic |-> FALSE] @@ set_part_opacity_index_unchecked(buf, index, value)
    ELSE [panic |-> TRUE, ret |-> None, buf |-> buf]

\* the two engine calls in the other order
UpdateCallsUpdateFirst == <<"csmUpdateModel", "csmResetDrawableDynamicFlags">>

\* csmUpdateModel of an engine that leaves the dynamic flag bytes, the
\* drawable opacities, the draw and render orders and the vertex positions
\* of answer in the buffer
EngineUpdateLeaving(buf, answer) ==
    [EngineUpdate(buf) EXCEPT !.flags = answer.flags, !.opacities = answer.opacities,
                              !.draw_orders = answer.draw_orders,
                              !.render_orders = answer.render_orders,
                              !.positions = answer.positions,
                              !.absent = answer.absent]

\* get_slice(csmGetDrawable...(model), drawable_count).ok_or(GetDataError(name))
\* for the dynamic array arr of the instance
get_dynamic_slice(buf, name, arr, len) ==
    IF get_slice(IF name \in buf.absent THEN NullPtr ELSE Ptr(arr), len) = None
    THEN Err("GetDataError", <<name>>)
    ELSE Ok(get_slice(Ptr(arr), len)[1])

\* DynamicFlags::from_bits_truncate in its place: undefined bits are dropped
DynamicFlagsFromBitsTruncate(f) == Some(f % 64)

\* DynamicFlags::from_bits : None when a bit outside the six masks is set
DynamicFlagsFromBits(f) == IF f \div 64 # 0 THEN None ELSE Some(f)

\* Model::drawable_dynamic_flags : the first invalid byte in index order
\* fails the whole read
drawable_dynamic_flags(self, buf) ==
    LET flags == get_dynamic_slice(buf, "drawable dynamic flags", buf.flags,
                                   drawable_count(self))
    IN  IF ~flags.ok THEN flags
        ELSE CollectResults([i \in 1..drawable_count(self) |->
                IF DynamicFlagsFromBits(flags.value[i]) = None
                THEN Err("InvalidFlags", <<"dynamic", flags.value[i]>>)
                ELSE Ok(DynamicFlagsFromBits(flags.value[i])[1])])

\* Model::drawable_draw_orders / drawable_render_orders : the slices as the
\* engine left them
drawable_draw_orders(self, buf) ==
    get_dynamic_slice(buf, "drawable draw orders", buf.draw_orders,
                      drawable_count(self))
drawable_render_orders(self, buf) ==
    get_dynamic_slice(buf, "drawable render orders", buf.render_orders,
                      drawable_count(self))

\* Model::drawable_opacities : the slice as the engine left it
drawable_opacities(self, buf) ==
    get_dynamic_slice(buf, "drawable opacities", buf.opacities, drawable_count(self))

\* Model::drawable_vertex_positions : the array of pointers, then for
\* every drawable its pointer and from_raw_parts(p, c), c the vertex count
\* of the static data
drawable_vertex_positions(self, buf) ==
    LET ptrs == get_dynamic_slice(buf, "drawable vertex positions",
                    [i \in DOMAIN buf.positions |->
                        IF "drawable vertex positions because null pointer"
                               \in buf.absent
                        THEN NullPtr ELSE Ptr(buf.positions[i])],
                    drawable_count(self))
    IN  IF ~ptrs.ok THEN ptrs
        ELSE CollectResults([i \in 1..drawable_count(self) |->
                IF ptrs.value[i].null
                THEN Err("GetDataError",
                         <<"drawable vertex positions because null pointer">>)
                ELSE Ok(from_raw_parts(ptrs.value[i].at,
                                       self.static_data.drawable_vertex_counts[i]))])

\* Model::get_dynamic_drawable_unchecked : the fields are read in the order
\* of the struct literal and the first failing read is returned
get_dynamic_drawable_unchecked(self, buf, index) ==
    LET dynamic_flags == drawable_dynamic_flags(self, buf)
        draw_orders == drawable_draw_orders(self, buf)
        render_orders == drawable_render_orders(self, buf)
        opacities == drawable_opacities(self, buf)
        vertex_positions == drawable_vertex_positions(self, buf)
    IN  IF ~dynamic_flags.ok THEN dynamic_flags
        ELSE IF ~draw_orders.ok THEN draw_orders
        ELSE IF ~render_orders.ok THEN render_orders
        ELSE IF ~opacities.ok THEN opacities
        ELSE IF ~vertex_positions.ok THEN vertex_positions
        ELSE Ok([index |-> index,
                 id |-> self.static_data.drawable_ids[index + 1],
                 dynamic_flag |-> dynamic_flags.value[index + 1],
                 draw_order |-> draw_orders.value[index + 1],
                 render_order |-> render_orders.value[index + 1],
                 opacity |-> opacities.value[index + 1],
                 vertex_positions |-> vertex_positions.value[index + 1]])

\* Model::get_dynamic_drawable
get_dynamic_drawable(self, buf, index) ==
    IF index < drawable_count(self)
    THEN get_dynamic_drawable_unchecked(self, buf, index)
    ELSE Err("InvalidDataCount", <<"drawable dynamic">>)

\* Model::dynamic_drawable
dynamic_drawable(self, buf, id) ==
    IF get_drawable_id_index(self, id) = None
    THEN Err("InvalidDataCount", <<"drawable dynamic">>)
    ELSE get_dynamic_drawable_unchecked(self, buf, get_drawable_id_index(self, id)[1])

\* Model::dynamic_drawable_index
dynamic_drawable_index(self, buf, index) ==
    IF index < drawable_count(self)
    THEN get_dynamic_drawable_unchecked(self, buf, index)
    ELSE Err("panic", <<"assertion failed: index < self.drawable_count()">>)

\* Model::drawable_draw_orders / drawable_render_orders returning the slice
\* itself, as DynamicDrawables reads them; model.rs has them returning a
\* Result.  The slice is what the instance's array holds.
ModelDrawableDrawOrders(buf) == buf.draw_orders
ModelDrawableRenderOrders(buf) == buf.render_orders

\* Model::drawable_vertex_positions returning the slices themselves, as
\* DynamicDrawables reads them; model.rs has it returning a Result.  Every
\* drawable has the positions the instance holds, cut to its vertex count.
ModelDrawableVertexPositions(self, buf) ==
    [i \in DOMAIN buf.positions |->
       from_raw_parts(buf.positions[i], self.static_data.drawable_vertex_counts[i])]

\* DynamicDrawables::get_index_unchecked : only the dynamic flags and the
\* opacities are read with the ? operator
DynamicDrawablesGetIndexUnchecked(self, buf, index) ==
    LET dynamic_flags == drawable_dynamic_flags(self, buf)
        opacities == drawable_opacities(self, buf)
    IN  IF ~dynamic_flags.ok THEN dynamic_flags
        ELSE IF ~opacities.ok THEN opacities
        ELSE Ok([index |-> index,
                 id |-> self.static_data.drawable_ids[index + 1],
                 dynamic_flags |-> dynamic_flags.value[index + 1],
                 draw_order |-> ModelDrawableDrawOrders(buf)[index + 1],
                 render_order |-> ModelDrawableRenderOrders(buf)[index + 1],
                 opacity |-> opacities.value[index + 1],
                 vertex_positions |-> ModelDrawableVertexPositions(self, buf)[index + 1]])

----------------------------------------------------------------------------
(* src/src/model.rs : the element records *)

\* Model::get_static_parameter_unchecked
get_static_parameter_unchecked(self, index) ==
    [index |-> index,
     id |-> self.static_data.parameter_ids[index + 1],
     min_value |-> self.static_data.parameter_min_values[index + 1],
     max_value |-> self.static_data.parameter_max_values[index + 1],
     default_value |-> self.static_data.parameter_default_values[index + 1]]

\* Model::get_static_part_unchecked
get_static_part_unchecked(self, index) ==
    [index |-> index,
     id |-> self.static_data.part_ids[index + 1],
     part_parent_index |-> self.static_data.part_parent_indices[index + 1]]

\* Model::get_static_drawable_unchecked
get_static_drawable_unchecked(self, index) ==
    [index |-> index,
     id |-> self.static_data.drawable_ids[index + 1],
     constant_flag |-> self.static_data.drawable_constant_flags[index + 1],
     texture_index |-> self.static_data.drawable_texture_indices[index + 1],
     masks |-> self.static_data.drawable_marks[index + 1],
     vertex_uvs |-> self.static_data.drawable_vertex_uvs[index + 1],
     indices |-> self.static_data.drawable_indices[index + 1]]

\* the three static domains and the dynamic drawables
StaticDomains == {"parameter", "part", "drawable"}

\* parameter_count / part_count / drawable_count
CountIn(self, domain) ==
    CASE domain = "parameter" -> parameter_count(self)
      [] domain = "part" -> part_count(self)
      [] domain \in {"drawable", "dynamic"} -> drawable_count(self)

\* get_parameter_id_index / get_part_id_index / get_drawable_id_index
IdIndexIn(self, domain, id) ==
    CASE domain = "parameter" -> get_parameter_id_index(self, id)
      [] domain = "part" -> get_part_id_index(self, id)
      [] domain \in {"drawable", "dynamic"} -> get_drawable_id_index(self, id)

\* get_static_parameter_unchecked / get_static_part_unchecked /
\* get_static_drawable_unchecked / get_dynamic_drawable_unchecked
UncheckedIn(self, buf, domain, index) ==
    CASE domain = "parameter" -> get_static_parameter_unchecked(self, index)
      [] domain = "part" -> get_static_part_unchecked(self, index)
      [] domain = "drawable" -> get_static_drawable_unchecked(self, index)
      [] domain = "dynamic" -> get_dynamic_drawable_unchecked(self, buf, index)

\* get_static_parameter / get_static_part / get_static_drawable fetching
\* the first element whatever the index
get_static_first(self, buf, domain, index) ==
    IF index < CountIn(self, domain)
    THEN Some(UncheckedIn(self, buf, domain, 0)) ELSE None

\* Model::get_static_parameter / get_static_part / get_static_drawable
get_static(self, buf, domain, index) ==
    IF index < CountIn(self, domain)
    THEN Some(UncheckedIn(self, buf, domain, index)) ELSE None

\* Model::static_parameter / static_part / static_drawable
static_by_id(self, buf, domain, id) ==
    IF IdIndexIn(self, domain, id) = None THEN None
    ELSE Some(UncheckedIn(self, buf, domain, IdIndexIn(self, domain, id)[1]))

\* Model::static_parameter_index / static_part_index / static_drawable_index
static_index(self, buf, domain, index) ==
    IF index < CountIn(self, domain)
    THEN Ok(UncheckedIn(self, buf, domain, index))
    ELSE Err("panic", <<"assertion failed: index < count">>)

----------------------------------------------------------------------------
(* src/src/lib.rs : ModelData and impl_iter!, over the collection values of *)
(* parameter.rs, part.rs and drawable.rs.  A collection value c holds the   *)
(* Model it borrows and the bounds start and end.                           *)

\* the domain a collection kind projects
DomainOf(kind) ==
    CASE kind \in {"StaticParameters", "StaticParameterIter"} -> "parameter"
      [] kind \in {"StaticParts", "StaticPartIter"} -> "part"
      [] kind \in {"StaticDrawables", "StaticDrawableIter"} -> "drawable"
      [] kind \in {"DynamicDrawables", "DynamicDrawableIter"} -> "dynamic"

\* StaticParameters::new and its like : start 0, end the count
CollectionNew(self, kind, m) ==
    [kind |-> kind, model |-> m, start |-> 0, end |-> CountIn(self, DomainOf(kind)),
     yields |-> <<>>]

\* ModelData::count
ModelDataCount(self, c) == CountIn(self, DomainOf(c.kind))

\* Model::parameter_index / part_index / drawable_index, which the
\* collections call and model.rs does not have: the lookup by identifier,
\* which model.rs holds as get_parameter_id_index / get_part_id_index /
\* get_drawable_id_index
ModelIdIndex(self, domain, id) == IdIndexIn(self, domain, id)

\* ModelData::index of the four collections
ModelDataIndex(self, c, id) == ModelIdIndex(self, DomainOf(c.kind), id)

\* Model::parameter_key_values, which StaticParameters calls and model.rs
\* does not have: the key values of every parameter.  The engine's answers
\* hold no key values: every parameter has none.
ModelParameterKeyValues(self) == [i \in 1..parameter_count(self) |-> <<>>]

\* Model::part_parent, which StaticParts calls and model.rs does not have:
\* the parent of every part, which model.rs holds as part_parent_indices
ModelPartParent(self) == self.static_data.part_parent_indices

\* x as usize, for x an i32 or a u16, on a target of 64-bit pointers: the
\* value modulo 2^64 in four 16-bit limbs, the most significant first.  A
\* negative x is sign-extended: -1 becomes <<65535, 65535, 65535, 65535>>,
\* that is 18446744073709551615.
AsUsize(x) ==
    IF x >= 0 THEN <<0, 0, x \div 65536, x % 65536>>
    ELSE <<65535, 65535, 32768 + (((x + 2147483647) + 1) \div 65536),
           ((x + 2147483647) + 1) % 65536>>

\* StaticParameters::get_index_unchecked
StaticParametersGetIndexUnchecked(self, index) ==
    [index |-> index,
     id |-> self.static_data.parameter_ids[index + 1],
     min_value |-> self.static_data.parameter_min_values[index + 1],
     max_value |-> self.static_data.parameter_max_values[index + 1],
     default_value |-> self.static_data.parameter_default_values[index + 1],
     key_values |-> ModelParameterKeyValues(self)[index + 1]]

\* StaticParts::get_index_unchecked
StaticPartsGetIndexUnchecked(self, index) ==
    [index |-> index,
     id |-> self.static_data.part_ids[index + 1],
     parent |-> ModelPartParent(self)[index + 1]]

\* StaticDrawables::get_index_unchecked : the texture index, every mask and
\* every index are cast to usize
StaticDrawablesGetIndexUnchecked(self, index) ==
    [index |-> index,
     id |-> self.static_data.drawable_ids[index + 1],
     constant_flags |-> self.static_data.drawable_constant_flags[index + 1],
     texture_index |-> AsUsize(self.static_data.drawable_texture_indices[index + 1]),
     masks |-> [m \in DOMAIN self.static_data.drawable_marks[index + 1] |->
                  AsUsize(self.static_data.drawable_marks[index + 1][m])],
     vertex_uvs |-> self.static_data.drawable_vertex_uvs[index + 1],
     indices |-> [i \in DOMAIN self.static_data.drawable_indices[index + 1] |->
                    AsUsize(self.static_data.drawable_indices[index + 1][i])]]

\* ModelData::get_index_unchecked of the four collections
ModelDataGetIndexUnchecked(self, buf, c, index) ==
    CASE c.kind = "StaticParameters" -> StaticParametersGetIndexUnchecked(self, index)
      [] c.kind = "StaticParts" -> StaticPartsGetIndexUnchecked(self, index)
      [] c.kind = "StaticDrawables" -> StaticDrawablesGetIndexUnchecked(self, index)
      [] c.kind = "DynamicDrawables" -> DynamicDrawablesGetIndexUnchecked(self, buf, index)

\* ModelData::get falling back to the first element, if there is one, for
\* an unknown identifier
ModelDataGetDefaulting(self, buf, c, id) ==
    IF ModelDataIndex(self, c, id) = None /\ ModelDataCount(self, c) = 0
    THEN Err("panic", <<"ID doesn't exist", id>>)
    ELSE IF ModelDataIndex(self, c, id) = None
    THEN Ok(ModelDataGetIndexUnchecked(self, buf, c, 0))
    ELSE Ok(ModelDataGetIndexUnchecked(self, buf, c, ModelDataIndex(self, c, id)[1]))

\* ModelData::get
ModelDataGet(self, buf, c, id) ==
    IF ModelDataIndex(self, c, id) = None
    THEN Err("panic", <<"ID doesn't exist", id>>)
    ELSE Ok(ModelDataGetIndexUnchecked(self, buf, c, ModelDataIndex(self, c, id)[1]))

\* ModelData::get_index
ModelDataGetIndex(self, buf, c, index) ==
    IF index < ModelDataCount(self, c)
    THEN Ok(ModelDataGetIndexUnchecked(self, buf, c, index))
    ELSE Err("panic", <<"assertion failed: index < self.count()">>)

\* impl_iter! next leaving start where it was
impl_iter_next_stuck(self, buf, c) ==
    IF c.start < c.end
    THEN [ret |-> Some(ModelDataGetIndexUnchecked(self, buf, c, c.start)),
          iter |-> c]
    ELSE [ret |-> None, iter |-> c]

\* impl_iter! next
impl_iter_next(self, buf, c) ==
    IF c.start < c.end
    THEN [ret |-> Some(ModelDataGetIndexUnchecked(self, buf, c, c.start)),
          iter |-> [c EXCEPT !.start = @ + 1]]
    ELSE [ret |-> None, iter |-> c]

\* impl_iter! next_back
impl_iter_next_back(self, buf, c) ==
    IF c.start < c.end
    THEN [ret |-> Some(ModelDataGetIndexUnchecked(self, buf, c, c.end - 1)),
          iter |-> [c EXCEPT !.end = @ - 1]]
    ELSE [ret |-> None, iter |-> c]

\* impl_iter! size_hint : end - start in usize, which overflows below 0
impl_iter_size_hint(c) ==
    IF c.end - c.start < 0 THEN Err("panic", <<"attempt to subtract with overflow">>)
    ELSE Ok(<<c.end - c.start, Some(c.end - c.start)>>)

\* impl_iter! get_all : collect() over what next() still yields; for the
\* dynamic drawables into a Result, the first Err or all the elements
impl_iter_get_all(self, buf, c) ==
    LET rest == [i \in 1..(c.end - c.start) |->
                    ModelDataGetIndexUnchecked(self, buf, c, c.start + i - 1)]
    IN  IF DomainOf(c.kind) = "dynamic" THEN CollectResults(rest) ELSE rest

----------------------------------------------------------------------------
(* src/src/model.rs : StaticParameterIter, StaticPartIter,                  *)
(* StaticDrawableIter and DynamicDrawableIter.  The iterator's field index  *)
(* is held in start and its field len in end.                               *)

\* Model::static_parameter_iter and its like : len the count, index 0
IterNew(self, kind, m) ==
    [kind |-> kind, model |-> m, start |-> 0, end |-> CountIn(self, DomainOf(kind)),
     yields |-> <<>>]

\* Iterator::next of the four iterators
IterNext(self, buf, c) ==
    IF c.start < c.end
    THEN [ret |-> Some(UncheckedIn(self, buf, DomainOf(c.kind), c.start)),
          iter |-> [c EXCEPT !.start = @ + 1]]
    ELSE [ret |-> None, iter |-> c]

\* Iterator::size_hint of the four iterators : len - index in usize
IterSizeHint(c) ==
    IF c.end - c.start < 0 THEN Err("panic", <<"attempt to subtract with overflow">>)
    ELSE Ok(<<c.end - c.start, Some(c.end - c.start)>>)

\* DoubleEndedIterator::next_back of the four iterators
IterNextBack(self, buf, c) ==
    IF c.start < c.end
    THEN [ret |-> Some(UncheckedIn(self, buf, DomainOf(c.kind), c.end - 1)),
          iter |-> [c EXCEPT !.end = @ - 1]]
    ELSE [ret |-> None, iter |-> c]

\* the engine calls of an update_model that leaves the reset of the dynamic
\* flags out
UpdateCallsWithoutReset == <<"csmUpdateModel">>

\* Model::update_model : the engine calls it makes, in order
UpdateCalls == <<"csmResetDrawableDynamicFlags", "csmUpdateModel">>

\* Model::update_model : reset of the dynamic flags, then the engine update
update_model(buf) == EngineUpdate(EngineResetDynamicFlags(buf))

\* impl Clone for Model, into model slot m : the buffer the new Model's
\* model field owns
CloneBufferSlot(self, m) == m

\* impl Clone for Model, with the copy of the part opacities left out
CloneValuesWithoutOpacities(fresh, src) == set_parameter_values(fresh, src.pv)

\* impl Clone for Model, with the copy of the parameter values left out
CloneValuesWithoutParameters(fresh, src) == set_part_opacities(fresh, src.po)

\* impl Clone for Model : the values copied into the fresh instance
CloneValues(fresh, src) ==
    IF set_parameter_values(fresh, src.pv).panic
    THEN set_parameter_values(fresh, src.pv)
    ELSE set_part_opacities(set_parameter_values(fresh, src.pv).buf, src.po)

\* impl Clone for Model : the engine calls made after init_model
CloneCalls == InitCalls \o <<"MutableData::new">>

\* impl Clone for Model, into model slot m.  expect() panics where
\* init_model or MutableData::new fail.
ModelClone(self, src, asset, size, initOk, m) ==
    LET model == InitModel(asset, size, initOk)
        static_data == self.static_data
        mut_data == MutableDataNew(Assets[asset], Len(static_data.parameter_ids),
                                   Len(static_data.part_ids))
    IN  IF ~model.ok
        THEN [res |-> Err("panic", <<"failed to init model when cloning Model">>),
              calls |-> InitCalls]
        ELSE IF ~mut_data.ok
        THEN [res |-> Err("panic",
                          <<"failed to new mutable data when cloning Model">>),
              calls |-> CloneCalls]
        ELSE IF CloneValues(model.value, src).panic
        THEN [res |-> Err("panic", <<"source slice length does not match destination slice length">>),
              calls |-> CloneCalls]
        ELSE [res |-> Ok(<<>>),
              calls |-> CloneCalls,
              buf |-> CloneValues(model.value, src).buf,
              self |-> [st |-> "alive", moc |-> self.moc,
                        model |-> CloneBufferSlot(self, m),
                        mut_data |-> CloneBufferSlot(self, m),
                        static_data |-> static_data]]

----------------------------------------------------------------------------
(* The state machine: one action per operation of the public API *)

NoOp == [op |-> "none", res |-> Ok(<<>>), slot |-> 0, calls |-> <<>>, in |-> <<>>]

\* no collection value is held
NoIter == [kind |-> "none", model |-> 0, start |-> 0, end |-> 0, yields |-> <<>>]

Init ==
    /\ latest \in LatestTags
    /\ mocs = [b \in MocSlots |-> NoMoc]
    /\ handles = [b \in MocSlots |-> 0]
    /\ models = [m \in ModelSlots |-> NoModel]
    /\ mbufs = [m \in ModelSlots |-> NoBuf]
    /\ last = NoOp
    /\ writes = 0
    /\ iter = NoIter

\* slots are taken in order
FreshMoc(b) ==
    /\ mocs[b].st = "unused"
    /\ \A c \in MocSlots : c < b => mocs[c].st # "unused"
FreshModel(m) ==
    /\ models[m].st = "none"
    /\ \A n \in ModelSlots : n < m => models[n].st # "none"

\* Moc::new(bytes)
DoMocNew(inputs) ==
    \E b \in MocSlots, bytes \in inputs :
        /\ FreshMoc(b)
        /\ LET r == MocNew(bytes, latest)
           IN  /\ mocs' = [mocs EXCEPT ![b] = r.data]
               /\ handles' = [handles EXCEPT ![b] = IF r.res.ok THEN 1 ELSE 0]
               /\ last' = [op |-> "Moc::new", res |-> r.res, slot |-> b,
                           calls |-> r.calls,
                           in |-> [len |-> bytes.len, tag |-> bytes.tag,
                                   reviveOk |-> bytes.reviveOk]]
        /\ UNCHANGED <<iter, latest, models, mbufs, writes>>

\* Moc::clone
DoMocClone ==
    \E b \in MocSlots :
        /\ handles[b] >= 1
        /\ handles[b] < MaxHandles
        /\ mocs' = [mocs EXCEPT ![b] = ArcClone(@)]
        /\ handles' = [handles EXCEPT ![b] = @ + 1]
        /\ last' = [NoOp EXCEPT !.op = "Moc::clone", !.slot = b]
        /\ UNCHANGED <<iter, latest, models, mbufs, writes>>

\* drop of a Moc value
DoMocDrop ==
    \E b \in MocSlots :
        /\ handles[b] >= 1
        /\ mocs' = [mocs EXCEPT ![b] = ArcDrop(@)]
        /\ handles' = [handles EXCEPT ![b] = @ - 1]
        /\ last' = [NoOp EXCEPT !.op = "Moc::drop", !.slot = b]
        /\ UNCHANGED <<iter, latest, models, mbufs, writes>>

\* Model::new(moc) : the Moc value moves into the Model, or is dropped with
\* the instance buffer when the call fails
DoModelNew ==
    \E b \in MocSlots, m \in ModelSlots, size \in Sizes, initOk \in BOOLEAN :
        /\ handles[b] >= 1
        /\ FreshModel(m)
        /\ \E r \in {ModelNew(b, mocs[b].asset, size, initOk, m)} :
               /\ handles' = [handles EXCEPT ![b] = @ - 1]
               /\ last' = [op |-> "Model::new", res |-> r.res, slot |-> m,
                           calls |-> r.calls,
                           in |-> [size |-> size, initOk |-> initOk]]
               /\ IF r.res.ok
                  THEN /\ models' = [models EXCEPT ![m] = r.self]
                       /\ mbufs' = [mbufs EXCEPT ![m] = r.buf]
                       /\ mocs' = mocs
                  ELSE /\ models' = [models EXCEPT ![m] = [NoModel EXCEPT !.st = "failed"]]
                       /\ mbufs' = mbufs
                       /\ mocs' = [mocs EXCEPT ![b] = ArcDrop(@)]
        /\ UNCHANGED <<iter, latest, writes>>

\* Model::clone : self.moc() clones the Arc; a panic unwinds and drops it
DoModelClone ==
    \E n \in ModelSlots, m \in ModelSlots, size \in Sizes, initOk \in BOOLEAN :
        /\ models[n].st = "alive"
        /\ FreshModel(m)
        /\ \E self \in {models[n]} :
           \E b \in {self.moc} :
           \E r \in {ModelClone(self, mbufs[self.mut_data], mocs[b].asset,
                                size, initOk, m)} :
               /\ last' = [op |-> "Model::clone", res |-> r.res, slot |-> m,
                           calls |-> r.calls,
                           in |-> [size |-> size, initOk |-> initOk, from |-> n]]
               /\ IF r.res.ok
                  THEN /\ models' = [models EXCEPT ![m] = r.self]
                       /\ mbufs' = [mbufs EXCEPT ![r.self.model] = r.buf]
                       /\ mocs' = [mocs EXCEPT ![b] = ModelMoc(@)]
                  ELSE /\ models' = [models EXCEPT ![m] = [NoModel EXCEPT !.st = "failed"]]
                       /\ mbufs' = mbufs
                       /\ mocs' = [mocs EXCEPT ![b] = ArcDrop(ModelMoc(@))]
        /\ UNCHANGED <<iter, latest, handles, writes>>

\* Model::moc : the caller holds one more Moc of the Model's asset
DoModelMoc ==
    \E m \in ModelSlots :
        /\ models[m].st = "alive"
        /\ handles[models[m].moc] < MaxHandles
        /\ mocs' = [mocs EXCEPT ![models[m].moc] = ModelMoc(@)]
        /\ handles' = [handles EXCEPT ![models[m].moc] = @ + 1]
        /\ last' = [NoOp EXCEPT !.op = "Model::moc", !.slot = m]
        /\ UNCHANGED <<iter, latest, models, mbufs, writes>>

\* Model::from_model(model) : Model::new(model.moc()), then the drop of the
\* Model given, whether Model::new failed or not
DoModelFromModel ==
    \E n \in ModelSlots, m \in ModelSlots, size \in Sizes, initOk \in BOOLEAN :
        /\ models[n].st = "alive"
        /\ FreshModel(m)
        /\ \E b \in {models[n].moc} :
           \E r \in {ModelNew(b, mocs[b].asset, size, initOk, m)} :
               /\ last' = [op |-> "Model::from_model", res |-> r.res, slot |-> m,
                           calls |-> r.calls,
                           in |-> [size |-> size, initOk |-> initOk, from |-> n]]
               /\ IF r.res.ok
                  THEN /\ models' = [models EXCEPT
                                        ![m] = r.self,
                                        ![n] = [NoModel EXCEPT !.st = "dropped"]]
                       /\ mbufs' = [mbufs EXCEPT
                                       ![m] = r.buf,
                                       ![models[n].model] = [NoBuf EXCEPT !.st = "freed"]]
                       /\ mocs' = [mocs EXCEPT ![b] = ArcDrop(ModelMoc(@))]
                  ELSE /\ models' = [models EXCEPT
                                        ![m] = [NoModel EXCEPT !.st = "failed"],
                                        ![n] = [NoModel EXCEPT !.st = "dropped"]]
                       /\ mbufs' = [mbufs EXCEPT
                                       ![models[n].model] = [NoBuf EXCEPT !.st = "freed"]]
                       /\ mocs' = [mocs EXCEPT ![b] = ArcDrop(ArcDrop(ModelMoc(@)))]
        /\ UNCHANGED <<iter, latest, handles, writes>>

\* drop of a Model value : its instance buffer, then its Moc
DoModelDrop ==
    \E m \in ModelSlots :
        /\ models[m].st = "alive"
        /\ models' = [models EXCEPT ![m] = [NoModel EXCEPT !.st = "dropped"]]
        /\ mbufs' = [mbufs EXCEPT ![models[m].model] = [NoBuf EXCEPT !.st = "freed"]]
        /\ mocs' = [mocs EXCEPT ![models[m].moc] = ArcDrop(@)]
        /\ last' = [NoOp EXCEPT !.op = "Model::drop", !.slot = m]
        /\ UNCHANGED <<iter, latest, handles, writes>>

\* Model::parameter_values and Model::part_opacities of a buffer
Values(buf) == [parameter_values |-> buf.pv, part_opacities |-> buf.po]

\* the effect of a setter, with the values written over the default values
\* of the static data as well
SetterIntoDefaults(m, op, r, in) ==
    /\ writes < MaxWrites
    /\ writes' = writes + 1
    /\ mbufs' = [mbufs EXCEPT ![models[m].mut_data] =
                                [r.buf EXCEPT !.synced = @ /\ r.ret = None]]
    /\ models' = [models EXCEPT ![m].static_data.parameter_default_values = r.buf.pv]
    /\ last' = [op |-> op, res |-> Ok(r.ret), slot |-> m, calls |-> <<>>,
                in |-> in @@ [before |-> Values(mbufs[models[m].mut_data])]]
    /\ UNCHANGED <<iter, latest, mocs, handles>>

\* the effect of a setter on the buffer the Model's mut_data points into;
\* before: the values read just before the call
Setter(m, op, r, in) ==
    /\ writes < MaxWrites
    /\ writes' = writes + 1
    /\ mbufs' = [mbufs EXCEPT ![models[m].mut_data] =
                                [r.buf EXCEPT !.synced = @ /\ r.ret = None]]
    /\ last' = [op |-> op, res |-> Ok(r.ret), slot |-> m, calls |-> <<>>,
                in |-> in @@ [before |-> Values(mbufs[models[m].mut_data])]]
    /\ UNCHANGED <<iter, latest, mocs, handles, models>>

\* Model::set_parameter_value(id, value)
DoSetParameterValue ==
    \E m \in ModelSlots, id \in {<<65>>, <<66>>, <<90>>}, value \in ParameterInputs :
        /\ models[m].st = "alive"
        /\ Setter(m, "set_parameter_value",
                  set_parameter_value(models[m], mbufs[models[m].mut_data], id, value),
                  [id |-> id, value |-> value])

\* Model::set_parameter_value_index(index, value)
DoSetParameterValueIndex ==
    \E m \in ModelSlots, index \in 0..1, value \in ParameterInputs :
        /\ models[m].st = "alive"
        /\ Setter(m, "set_parameter_value_index",
                  set_parameter_value_index(models[m], mbufs[models[m].mut_data],
                                            index, value),
                  [index |-> index, value |-> value])

\* Model::set_part_opacity(id, value)
DoSetPartOpacity(values) ==
    \E m \in ModelSlots, id \in {<<80>>, <<81>>, <<90>>}, value \in values :
        /\ models[m].st = "alive"
        /\ Setter(m, "set_part_opacity",
                  set_part_opacity(models[m], mbufs[models[m].mut_data], id, value),
                  [id |-> id, value |-> value])

\* Model::set_part_opacity_index(index, value)
DoSetPartOpacityIndex(values) ==
    \E m \in ModelSlots, index \in 0..1, value \in values :
        /\ models[m].st = "alive"
        /\ Setter(m, "set_part_opacity_index",
                  set_part_opacity_index(models[m], mbufs[models[m].mut_data],
                                         index, value),
                  [index |-> index, value |-> value])

\* the effect of an asserting setter: as Setter, or a panic that leaves the
\* buffer as it was
AssertingSetter(m, op, r, in) ==
    /\ writes < MaxWrites
    /\ writes' = writes + 1
    /\ mbufs' = [mbufs EXCEPT ![models[m].mut_data] =
                                [r.buf EXCEPT !.synced = @ /\ r.panic]]
    /\ last' = [op |-> op,
                res |-> IF r.panic THEN Err("panic", <<"assertion failed">>)
                        ELSE Ok(r.ret),
                slot |-> m, calls |-> <<>>,
                in |-> in @@ [before |-> Values(mbufs[models[m].mut_data])]]
    /\ UNCHANGED <<iter, latest, mocs, handles, models>>

\* Model::parameter_value_index(index, value)
DoParameterValueIndex ==
    \E m \in ModelSlots, index \in 0..1, value \in ParameterInputs :
        /\ models[m].st = "alive"
        /\ AssertingSetter(m, "parameter_value_index",
                           parameter_value_index(models[m], mbufs[models[m].mut_data],
                                                 index, value),
                           [index |-> index, value |-> value])

\* Model::part_opacity_index(index, value)
DoPartOpacityIndex(values) ==
    \E m \in ModelSlots, index \in 0..1, value \in values :
        /\ models[m].st = "alive"
        /\ AssertingSetter(m, "part_opacity_index",
                           part_opacity_index(models[m], mbufs[models[m].mut_data],
                                              index, value),
                           [index |-> index, value |-> value])

\* the arrays callers hand to set_parameter_values / set_part_opacities:
\* none, one or two of the values
ArraysOf(values) ==
    {<<>>} \cup {<<v>> : v \in values} \cup {<<v, v>> : v \in values}

\* the effect of a write through the whole slice: as Setter, or the panic of
\* copy_from_slice that leaves the buffer as it was
SliceWrite(m, op, r, in) ==
    /\ writes < MaxWrites
    /\ writes' = writes + 1
    /\ mbufs' = [mbufs EXCEPT ![models[m].mut_data] =
                                [r.buf EXCEPT !.synced = @ /\ r.panic]]
    /\ last' = [op |-> op,
                res |-> IF r.panic
                        THEN Err("panic", <<"source slice length does not match destination slice length">>)
                        ELSE Ok(<<>>),
                slot |-> m, calls |-> <<>>,
                in |-> in @@ [before |-> Values(mbufs[models[m].mut_data])]]
    /\ UNCHANGED <<iter, latest, mocs, handles, models>>

\* Model::set_parameter_values(values)
DoSetParameterValues ==
    \E m \in ModelSlots, values \in ArraysOf(ParameterInputs) :
        /\ models[m].st = "alive"
        /\ SliceWrite(m, "set_parameter_values",
                      set_parameter_values(mbufs[models[m].mut_data], values),
                      [values |-> values])

\* Model::parameter_values_mut()[index] = value
DoParameterValuesMut ==
    \E m \in ModelSlots, index \in 0..1, value \in ParameterInputs :
        /\ models[m].st = "alive"
        /\ index < Len(mbufs[models[m].mut_data].pv)
        /\ SliceWrite(m, "parameter_values_mut",
                      [panic |-> FALSE,
                       buf |-> parameter_values_mut(mbufs[models[m].mut_data], index, value)],
                      [index |-> index, value |-> value])

\* Model::set_part_opacities(values)
DoSetPartOpacities(values) ==
    \E m \in ModelSlots, opacities \in ArraysOf(values) :
        /\ models[m].st = "alive"
        /\ SliceWrite(m, "set_part_opacities",
                      set_part_opacities(mbufs[models[m].mut_data], opacities),
                      [values |-> opacities])

\* Model::part_opacities_mut()[index] = value
DoPartOpacitiesMut(values) ==
    \E m \in ModelSlots, index \in 0..1, value \in values :
        /\ models[m].st = "alive"
        /\ index < Len(mbufs[models[m].mut_data].po)
        /\ SliceWrite(m, "part_opacities_mut",
                      [panic |-> FALSE,
                       buf |-> part_opacities_mut(mbufs[models[m].mut_data], index, value)],
                      [index |-> index, value |-> value])

\* Model::update_model ; again: the call before it was update_model on the
\* same Model ; fresh: the call before it was the clone that made the Model
DoUpdateModel ==
    \E m \in ModelSlots :
        /\ models[m].st = "alive"
        /\ mbufs' = [mbufs EXCEPT ![models[m].model] =
                                    [update_model(@) EXCEPT !.synced = TRUE]]
        /\ last' = [NoOp EXCEPT !.op = "update_model", !.slot = m, !.calls = UpdateCalls,
                                !.in = [again |-> last.op = "update_model" /\ last.slot = m,
                                        fresh |-> /\ last.op = "Model::clone"
                                                  /\ last.res.ok
                                                  /\ last.slot = m]]
        /\ UNCHANGED <<iter, latest, mocs, handles, models, writes>>

\* every asset, tag, length and engine answer
Next ==
    \/ DoMocNew(Bytes)
    \/ DoMocClone
    \/ DoMocDrop
    \/ DoModelNew
    \/ DoModelClone
    \/ DoModelMoc
    \/ DoModelFromModel
    \/ DoModelDrop

Spec == Init /\ [][Next]_vars

\* the instances of one well-formed asset under an engine whose latest
\* supported version is Version40: their values, opacities and evaluation
GoodBytes == {[len |-> <<0, 64>>, tag |-> 1, reviveOk |-> TRUE, asset |-> 1]}

InitData == Init /\ latest = 3

NextData ==
    \/ DoMocNew(GoodBytes)
    \/ DoModelNew
    \/ DoModelClone
    \/ DoModelDrop
    \/ DoSetParameterValue
    \/ DoSetParameterValueIndex
    \/ DoSetPartOpacity(OpacityInputs)
    \/ DoSetPartOpacityIndex(OpacityInputs)
    \/ DoUpdateModel

SpecData == InitData /\ [][NextData]_vars

\* the life of the Mocs of a well-formed asset under every tag and every
\* latest version: the Moc dropped, or Models created on it (Model::new,
\* Model::from_model), written to, evaluated and dropped, in every order
LiveBytes == [len : {<<0, 64>>}, tag : Tags, reviveOk : BOOLEAN, asset : {1}]

NextLive ==
    \/ DoMocNew(LiveBytes)
    \/ DoMocDrop
    \/ DoModelNew
    \/ DoModelFromModel
    \/ DoModelDrop
    \/ DoSetParameterValue
    \/ DoUpdateModel

SpecLive == Init /\ [][NextLive]_vars

\* the halves of the numbers csmGetVersion may report
VersionLimbs == {0, 1, 255, 256, 257, 1027, 1280, 32768, 65280, 65535}

\* CubismVersion::version and the three accessors on its value
DoCubismVersion ==
    \E version \in VersionLimbs \X VersionLimbs :
        /\ last' = [NoOp EXCEPT !.op = "CubismVersion::version",
                                !.calls = <<"csmGetVersion">>,
                                !.res = Ok([version |-> version,
                                            major |-> CubismVersionMajor(version),
                                            minor |-> CubismVersionMinor(version),
                                            patch |-> CubismVersionPatch(version)])]
        /\ UNCHANGED <<iter, latest, mocs, handles, models, mbufs, writes>>

SpecVersion == Init /\ [][DoCubismVersion]_vars

\* the facet extraction of Model::new over what the engine may report
ExtractBytes ==
    {[len |-> <<0, 64>>, tag |-> 1, reviveOk |-> TRUE, asset |-> a] : a \in ExtractAssetIds}

\* the identifiers looked up: those of the assets, as decoded, and one that
\* no asset has
IdInputs == {<<65>>, <<66>>, <<80>>, <<81>>, <<68>>, <<69>>, <<90>>,
             <<ReplacementCharacter>>, <<65, ReplacementCharacter>>, <<233>>,
             <<8364>>, <<128512>>}

\* a read-only call on Model m
Lookup(m, op, ret, in) ==
    /\ models[m].st = "alive"
    /\ last' = [NoOp EXCEPT !.op = op, !.slot = m, !.res = Ok(ret), !.in = in]
    /\ UNCHANGED <<iter, latest, mocs, handles, models, mbufs, writes>>

\* Model::get_parameter_id_index(id)
DoGetParameterIdIndex ==
    \E m \in ModelSlots, id \in IdInputs :
        Lookup(m, "get_parameter_id_index", get_parameter_id_index(models[m], id),
               [id |-> id])

\* Model::get_part_id_index(id)
DoGetPartIdIndex ==
    \E m \in ModelSlots, id \in IdInputs :
        Lookup(m, "get_part_id_index", get_part_id_index(models[m], id), [id |-> id])

\* Model::get_drawable_id_index(id)
DoGetDrawableIdIndex ==
    \E m \in ModelSlots, id \in IdInputs :
        Lookup(m, "get_drawable_id_index", get_drawable_id_index(models[m], id),
               [id |-> id])

NextExtract ==
    \/ DoMocNew(ExtractBytes)
    \/ DoModelNew
    \/ DoModelClone

\* the extraction of the identifiers and the lookups by identifier
IdBytes ==
    {[len |-> <<0, 64>>, tag |-> 1, reviveOk |-> TRUE, asset |-> a] : a \in IdAssetIds}

NextIds ==
    \/ DoMocNew(IdBytes)
    \/ DoModelNew
    \/ DoGetParameterIdIndex
    \/ DoGetPartIdIndex
    \/ DoGetDrawableIdIndex

SpecIds == InitData /\ [][NextIds]_vars

\* the dynamic flag bytes and the drawable opacities (in units of 1e-4) an
\* update of the engine may leave for the two drawables of ExtractBase:
\* defined and undefined flag bits, opacities at and beyond 0 - 1e-4 and
\* 1 + 1e-4, and accessors of the engine that answer a null pointer; with
\* each of them the draw orders, render orders and vertex positions it may
\* leave, an array of positions being at least as long as the vertex count
DynamicAnswers ==
    LET Left ==
          { [flags |-> <<1, 37>>, opacities |-> <<10000, 0>>, absent |-> {}],
            [flags |-> <<63, 0>>, opacities |-> <<0 - 1, 10000 + 1>>, absent |-> {}],
            [flags |-> <<1, 1>>, opacities |-> <<0 - 2, 10000>>, absent |-> {}],
            [flags |-> <<1, 1>>, opacities |-> <<5000, 10000 + 2>>, absent |-> {}],
            [flags |-> <<64, 1>>, opacities |-> <<10000, 10000>>, absent |-> {}],
            [flags |-> <<37, 193>>, opacities |-> <<10000, 10000>>, absent |-> {}],
            [flags |-> <<128, 255>>, opacities |-> <<10000, 0 - 2>>, absent |-> {}],
            [flags |-> <<1, 1>>, opacities |-> <<10000, 10000>>,
             absent |-> {"drawable dynamic flags"}],
            [flags |-> <<1, 1>>, opacities |-> <<10000, 10000>>,
             absent |-> {"drawable opacities"}],
            [flags |-> <<64, 1>>, opacities |-> <<10000, 10000>>,
             absent |-> {"drawable draw orders", "drawable opacities"}],
            [flags |-> <<1, 1>>, opacities |-> <<10000, 10000>>,
             absent |-> {"drawable render orders", "drawable vertex positions"}],
            [flags |-> <<1, 1>>, opacities |-> <<10000, 10000>>,
             absent |-> {"drawable vertex positions because null pointer"}] }
        Orders ==
          { [draw_orders |-> <<0, 0>>, render_orders |-> <<0, 0>>,
             positions |-> << << <<0, 0>> >>, << <<0, 1>> >> >>],
            [draw_orders |-> <<500, 501>>, render_orders |-> <<1, 0>>,
             positions |-> << << <<3, 4>>, <<7, 8>> >>, << <<5, 6>> >> >>] }
    IN  {a @@ o : a \in Left, o \in Orders}

\* Model::update_model with an engine that leaves any of DynamicAnswers
DoUpdateModelLeaving ==
    \E m \in ModelSlots, answer \in DynamicAnswers :
        /\ models[m].st = "alive"
        /\ mbufs' = [mbufs EXCEPT ![models[m].model] =
                        [EngineUpdateLeaving(EngineResetDynamicFlags(@), answer)
                           EXCEPT !.synced = TRUE]]
        /\ last' = [NoOp EXCEPT !.op = "update_model", !.slot = m, !.calls = UpdateCalls,
                                !.in = [again |-> last.op = "update_model" /\ last.slot = m,
                                        fresh |-> /\ last.op = "Model::clone"
                                                  /\ last.res.ok
                                                  /\ last.slot = m]]
        /\ UNCHANGED <<iter, latest, mocs, handles, models, writes>>

\* a read-only call on Model m that returns a Result
Read(m, op, res, in) ==
    /\ models[m].st = "alive"
    /\ last' = [NoOp EXCEPT !.op = op, !.slot = m, !.res = res, !.in = in]
    /\ UNCHANGED <<iter, latest, mocs, handles, models, mbufs, writes>>

\* Model::drawable_dynamic_flags
DoDrawableDynamicFlags ==
    \E m \in ModelSlots :
        Read(m, "drawable_dynamic_flags",
             drawable_dynamic_flags(models[m], mbufs[models[m].model]), <<>>)

\* Model::drawable_opacities
DoDrawableOpacities ==
    \E m \in ModelSlots :
        Read(m, "drawable_opacities",
             drawable_opacities(models[m], mbufs[models[m].model]), <<>>)

\* Model::get_dynamic_drawable(index)
DoGetDynamicDrawable ==
    \E m \in ModelSlots, index \in 0..3 :
        Read(m, "get_dynamic_drawable",
             get_dynamic_drawable(models[m], mbufs[models[m].model], index),
             [index |-> index])

\* Model::dynamic_drawable(id)
DoDynamicDrawable ==
    \E m \in ModelSlots, id \in IdInputs :
        Read(m, "dynamic_drawable",
             dynamic_drawable(models[m], mbufs[models[m].model], id), [id |-> id])

\* Model::dynamic_drawable_index(index)
DoDynamicDrawableIndex ==
    \E m \in ModelSlots, index \in 0..3 :
        Read(m, "dynamic_drawable_index",
             dynamic_drawable_index(models[m], mbufs[models[m].model], index),
             [index |-> index])

\* the asset of ExtractBase
ReadBytes ==
    {[len |-> <<0, 64>>, tag |-> 1, reviveOk |-> TRUE, asset |-> Len(LifecycleAssets) + 1]}

NextRead ==
    \/ DoMocNew(ReadBytes)
    \/ DoModelNew
    \/ DoUpdateModelLeaving
    \/ DoDrawableDynamicFlags
    \/ DoDrawableOpacities
    \/ DoGetDynamicDrawable
    \/ DoDynamicDrawable
    \/ DoDynamicDrawableIndex

SpecRead == InitData /\ [][NextRead]_vars

SpecExtract == InitData /\ [][NextExtract]_vars

----------------------------------------------------------------------------
(* The collection values of lib.rs and the iterators of model.rs, held by   *)
(* the caller in iter.  yields is history: the direction and the index      *)
(* field of every element the value has yielded.                            *)

TraitKinds == {"StaticParameters", "StaticParts", "StaticDrawables", "DynamicDrawables"}
IterKinds == {"StaticParameterIter", "StaticPartIter", "StaticDrawableIter",
              "DynamicDrawableIter"}

\* the instance buffer of Model m
BufferOf(m) == mbufs[models[m].model]

\* the index field of a yielded element
YieldedIndex(kind, data) ==
    IF DomainOf(kind) # "dynamic" THEN data.index
    ELSE IF data.ok THEN data.value.index ELSE 0 - 1

\* the caller takes a collection value or an iterator of Model m
Take(m, value) ==
    /\ models[m].st = "alive"
    /\ iter' = value
    /\ last' = [NoOp EXCEPT !.op = "take", !.slot = m, !.in = [kind |-> value.kind]]
    /\ UNCHANGED <<latest, mocs, handles, models, mbufs, writes>>

\* StaticParameters::new(model) and its like
DoCollectionNew ==
    \E m \in ModelSlots, kind \in TraitKinds : Take(m, CollectionNew(models[m], kind, m))

\* Model::static_parameter_iter() and its like
DoIterNew ==
    \E m \in ModelSlots, kind \in IterKinds : Take(m, IterNew(models[m], kind, m))

\* a call of next or next_back that returned r
Yield(op, r) ==
    /\ iter' = [r.iter EXCEPT !.yields =
                    IF r.ret = None THEN @
                    ELSE Append(@, <<op, YieldedIndex(iter.kind, r.ret[1])>>)]
    /\ last' = [NoOp EXCEPT !.op = op, !.slot = iter.model, !.res = Ok(r.ret),
                            !.in = [kind |-> iter.kind, yielded |-> Len(iter.yields)]]
    /\ UNCHANGED <<latest, mocs, handles, models, mbufs, writes>>

\* a call on the held value that leaves it as it is
Ask(op, res, in) ==
    /\ last' = [NoOp EXCEPT !.op = op, !.slot = iter.model, !.res = res, !.in = in]
    /\ UNCHANGED <<iter, latest, mocs, handles, models, mbufs, writes>>

\* Iterator::next of a collection value
DoNext ==
    /\ iter.kind \in TraitKinds
    /\ Yield("next", impl_iter_next(models[iter.model], BufferOf(iter.model), iter))

\* DoubleEndedIterator::next_back of a collection value
DoNextBack ==
    /\ iter.kind \in TraitKinds
    /\ Yield("next_back", impl_iter_next_back(models[iter.model], BufferOf(iter.model), iter))

\* Iterator::size_hint of a collection value
DoSizeHint ==
    /\ iter.kind \in TraitKinds
    /\ Ask("size_hint", impl_iter_size_hint(iter),
           [kind |-> iter.kind, yielded |-> Len(iter.yields)])

\* get_all(self) : the collection value is consumed
DoGetAll ==
    /\ iter.kind \in TraitKinds
    /\ iter' = NoIter
    /\ last' = [NoOp EXCEPT !.op = "get_all", !.slot = iter.model,
                            !.res = Ok(impl_iter_get_all(models[iter.model],
                                                         BufferOf(iter.model), iter)),
                            !.in = [kind |-> iter.kind, yielded |-> Len(iter.yields)]]
    /\ UNCHANGED <<latest, mocs, handles, models, mbufs, writes>>

\* Iterator::next of an iterator of model.rs
DoIterNext ==
    /\ iter.kind \in IterKinds
    /\ Yield("next", IterNext(models[iter.model], BufferOf(iter.model), iter))

\* DoubleEndedIterator::next_back of an iterator of model.rs
DoIterNextBack ==
    /\ iter.kind \in IterKinds
    /\ Yield("next_back", IterNextBack(models[iter.model], BufferOf(iter.model), iter))

\* Iterator::size_hint of an iterator of model.rs
DoIterSizeHint ==
    /\ iter.kind \in IterKinds
    /\ Ask("size_hint", IterSizeHint(iter),
           [kind |-> iter.kind, yielded |-> Len(iter.yields)])

\* the assets of IterAssets
IterBytes ==
    {[len |-> <<0, 64>>, tag |-> 1, reviveOk |-> TRUE, asset |-> a] : a \in IterAssetIds}

NextIter ==
    \/ DoMocNew(IterBytes)
    \/ DoModelNew
    \/ DoCollectionNew
    \/ DoIterNew
    \/ DoNext
    \/ DoNextBack
    \/ DoSizeHint
    \/ DoGetAll
    \/ DoIterNext
    \/ DoIterNextBack
    \/ DoIterSizeHint

SpecIter == InitData /\ [][NextIter]_vars

\* the identifiers asked of a collection: those of IterAssets and one that
\* no asset has
KeyInputs == {<<65>>, <<66>>, <<67>>, <<80>>, <<68>>, <<69>>, <<90>>}

\* the indices asked of a collection: below, at and beyond every count
IndexInputs == 0..4

\* ModelData::count
DoCount ==
    /\ iter.kind \in TraitKinds
    /\ Ask("count", Ok(ModelDataCount(models[iter.model], iter)), [kind |-> iter.kind])

\* ModelData::index(id)
DoIndex ==
    /\ iter.kind \in TraitKinds
    /\ \E id \in KeyInputs :
           Ask("index", Ok(ModelDataIndex(models[iter.model], iter, id)),
               [kind |-> iter.kind, id |-> id])

\* ModelData::get(id)
DoGet ==
    /\ iter.kind \in TraitKinds
    /\ \E id \in KeyInputs :
           Ask("get", ModelDataGet(models[iter.model], BufferOf(iter.model), iter, id),
               [kind |-> iter.kind, id |-> id])

\* ModelData::get_index(index)
DoGetIndex ==
    /\ iter.kind \in TraitKinds
    /\ \E index \in IndexInputs :
           Ask("get_index",
               ModelDataGetIndex(models[iter.model], BufferOf(iter.model), iter, index),
               [kind |-> iter.kind, index |-> index])

\* Model::get_static_parameter(index) and its like
DoGetStatic ==
    \E m \in ModelSlots, domain \in StaticDomains, index \in IndexInputs :
        Read(m, "get_static", Ok(get_static(models[m], BufferOf(m), domain, index)),
             [domain |-> domain, index |-> index])

\* Model::static_parameter(id) and its like
DoStaticById ==
    \E m \in ModelSlots, domain \in StaticDomains, id \in KeyInputs :
        Read(m, "static_by_id", Ok(static_by_id(models[m], BufferOf(m), domain, id)),
             [domain |-> domain, id |-> id])

\* Model::static_parameter_index(index) and its like
DoStaticIndex ==
    \E m \in ModelSlots, domain \in StaticDomains, index \in IndexInputs :
        Read(m, "static_index", static_index(models[m], BufferOf(m), domain, index),
             [domain |-> domain, index |-> index])

NextCollection ==
    \/ DoMocNew(IterBytes)
    \/ DoModelNew
    \/ DoCollectionNew
    \/ DoCount
    \/ DoIndex
    \/ DoGet
    \/ DoGetIndex
    \/ DoGetStatic
    \/ DoStaticById
    \/ DoStaticIndex

SpecCollection == InitData /\ [][NextCollection]_vars

\* the setters of one well-formed asset, by id, by checked index, by
\* asserting index and through the whole slice, with values inside and
\* outside the parameter range
SetOpacityInputs == OpacityInputs \cup {1}

NextSet ==
    \/ DoMocNew(GoodBytes)
    \/ DoModelNew
    \/ DoModelClone
    \/ DoSetParameterValue
    \/ DoSetParameterValueIndex
    \/ DoParameterValueIndex
    \/ DoSetPartOpacity(SetOpacityInputs)
    \/ DoSetPartOpacityIndex(SetOpacityInputs)
    \/ DoPartOpacityIndex(SetOpacityInputs)
    \/ DoSetParameterValues
    \/ DoParameterValuesMut
    \/ DoSetPartOpacities(SetOpacityInputs)
    \/ DoPartOpacitiesMut(SetOpacityInputs)

SpecSet == InitData /\ [][NextSet]_vars

\* the setters that return the previous value, on an instance of two
\* parameters (A at 0, B at 1) and two parts (both at 1): every write has
\* another index of its slice to leave alone
UndoBytes ==
    {[len |-> <<0, 64>>, tag |-> 1, reviveOk |-> TRUE,
      asset |-> Len(LifecycleAssets) + Len(ExtractAssets) + 14]}

NextUndo ==
    \/ DoMocNew(UndoBytes)
    \/ DoModelNew
    \/ DoModelClone
    \/ DoSetParameterValue
    \/ DoSetParameterValueIndex
    \/ DoParameterValueIndex
    \/ DoSetPartOpacity(SetOpacityInputs)
    \/ DoSetPartOpacityIndex(SetOpacityInputs)
    \/ DoPartOpacityIndex(SetOpacityInputs)

SpecUndo == InitData /\ [][NextUndo]_vars

----------------------------------------------------------------------------
(* Properties of Moc::new and of the asset buffer *)

Range(f) == {f[i] : i \in DOMAIN f}

\* the values that hold the Arc of asset buffer b: Moc values and Models
AliveModelsOf(b) == {m \in ModelSlots : models[m].st = "alive" /\ models[m].moc = b}
Holders(b) == handles[b] + Cardinality(AliveModelsOf(b))

\* the last step was Moc::new and it got as far as the version test
VersionTested == last.op = "Moc::new" /\ ~LenGt(last.in.len, CUintMax)

\* the tag of the bytes given to the last Moc::new classifies above
\* latest_version()
TagAboveLatest == MocVersionGt(MocVersionNew(last.in.tag), MocVersionNew(latest))

\* no Moc came out of the last Moc::new
NoMocReturned ==
    /\ handles[last.slot] = 0
    /\ mocs[last.slot].st = "failed"
    /\ mocs[last.slot].strong = 0

\* C1, as written: whenever Moc::new is given bytes whose tag classifies above
\* latest_version(), it returns Err(InvalidMocVersion(tag)) with the raw tag,
\* no Moc exists and revive was never called.
C1_NewerTagRejectedAsWritten ==
    (last.op = "Moc::new" /\ TagAboveLatest)
        => /\ last.res = Err("InvalidMocVersion", <<last.in.tag>>)
           /\ NoMocReturned
           /\ "csmReviveMocInPlace" \notin Range(last.calls)

\* C1, amended: whenever Moc::new is given bytes no longer than c_uint::MAX
\* whose tag classifies above latest_version(), it returns
\* Err(InvalidMocVersion(tag)) with the raw tag, no Moc exists and revive was
\* never called on the buffer.
C1_NewerTagRejected ==
    (VersionTested /\ TagAboveLatest)
        => /\ last.res = Err("InvalidMocVersion", <<last.in.tag>>)
           /\ NoMocReturned
           /\ "csmReviveMocInPlace" \notin Range(last.calls)
           /\ mocs[last.slot].revives = 0

\* a Version40 asset under an engine whose latest version is Version33
C1_Witness ==
    /\ VersionTested
    /\ last.in.tag = 3
    /\ latest = 2
    /\ ~last.res.ok
    /\ last.res.kind = "InvalidMocVersion"

\* C2, as written: a tag other than 1, 2 or 3 classifies as VersionUnknown, and
\* Moc::new rejects bytes that carry such a tag whatever the engine reports as
\* its latest version.
C2_UnknownTagRejected ==
    /\ \A t \in Tags \cup LatestTags :
           t \notin {1, 2, 3} => MocVersionNew(t) = "VersionUnknown"
    /\ (VersionTested /\ MocVersionNew(last.in.tag) = "VersionUnknown")
           => ~last.res.ok

\* C3: the version of every Moc that Moc::new returned, read at any later
\* time (the revive has rewritten the buffer; Models were created on it,
\* written to, evaluated and dropped), is at most latest_version().
C3_VersionWithinLatest ==
    \A b \in MocSlots :
        mocs[b].st = "live"
            => /\ mocs[b].revived
               /\ MocVersionLe(MocVersion(mocs[b]), LatestVersion(latest))

\* a revived Version40 Moc under a Version40 engine, read after a Model
\* built on it was written to and evaluated and another one was dropped
C3_Witness ==
    /\ latest = 3
    /\ last.op = "update_model"
    /\ writes > 0
    /\ \E m \in ModelSlots : models[m].st = "dropped"
    /\ mbufs[models[last.slot].model].synced
    /\ mbufs[models[last.slot].model].pv # EngineInitialize(1).pv
    /\ \E b \in MocSlots :
           /\ mocs[b].st = "live"
           /\ mocs[b].revives = 1
           /\ mocs[b].revived
           /\ MocVersion(mocs[b]) = "Version40"

\* C4, as written: Moc::new on an empty slice returns an Err of the asset
\* kinds for every engine response, never an Ok.
C4_EmptySliceRejected ==
    (last.op = "Moc::new" /\ last.in.len = <<0, 0>>)
        => /\ ~last.res.ok
           /\ last.res.kind \in {"MocDataTooLarge", "InvalidMocVersion", "InvalidMocData"}

\* C5: when the version test passes and revive returns null, Moc::new returns
\* Err(InvalidMocData) and no Moc exists; a Moc or a Model holds a buffer only
\* if revive returned non-null on it; and revive ran exactly once on every
\* buffer that became a Moc, however many clones and Models were made from it.
C5_ReviveOncePerMoc ==
    /\ (VersionTested /\ ~TagAboveLatest /\ ~last.in.reviveOk)
           => /\ last.res = Err("InvalidMocData", <<>>)
              /\ NoMocReturned
    /\ \A b \in MocSlots :
           /\ Holders(b) > 0 => mocs[b].revived
           /\ mocs[b].st \in {"live", "freed"} => mocs[b].revives = 1
           /\ mocs[b].revives <= 1
    /\ last.op \in {"Moc::clone", "Model::new", "Model::clone"}
           => "csmReviveMocInPlace" \notin Range(last.calls)

\* a supported tag on which revive returned null
C5_Witness ==
    /\ VersionTested
    /\ ~TagAboveLatest
    /\ ~last.in.reviveOk
    /\ mocs[last.slot].revives = 1

\* C6: the asset buffer is allocated while a Moc value or a Model holds it,
\* and is released once, at the drop of the last of them.
C6_BufferLivesWithHolders ==
    \A b \in MocSlots :
        /\ Holders(b) > 0 => mocs[b].st = "live"
        /\ mocs[b].st = "live" => /\ mocs[b].strong = Holders(b)
                                  /\ Holders(b) > 0
                                  /\ mocs[b].frees = 0
        /\ mocs[b].st = "freed" => mocs[b].frees = 1
        /\ mocs[b].frees <= 1

\* the last holder was a clone of a Model: both Models dropped, no Moc value
\* left, the buffer released by the second drop
C6_Witness ==
    /\ last.op = "Model::drop"
    /\ \A m \in ModelSlots : models[m].st = "dropped"
    /\ \E b \in MocSlots : mocs[b].st = "freed" /\ handles[b] = 0

----------------------------------------------------------------------------
(* Properties of Model::new and of Clone for Model *)

\* C7, as written: Model::new fails with InitializeModelError whenever the
\* engine reports an instance size of zero, and no Model is returned.
C7_ZeroSizeRejected ==
    (last.op = "Model::new" /\ last.in.size = 0)
        => /\ last.res = Err("InitializeModelError", <<>>)
           /\ models[last.slot].st # "alive"

\* C8: Model::new returns Err(InitializeModelError) whenever initialize
\* returns null, and neither StaticData::new nor MutableData::new runs.
C8_NullInitializeRejected ==
    (last.op = "Model::new" /\ ~last.in.initOk)
        => /\ last.res = Err("InitializeModelError", <<>>)
           /\ "StaticData::new" \notin Range(last.calls)
           /\ "MutableData::new" \notin Range(last.calls)
           /\ models[last.slot].st = "failed"
           /\ mbufs[last.slot].st = "none"

\* initialize returned null on a buffer of non-zero size
C8_Witness ==
    /\ last.op = "Model::new"
    /\ ~last.in.initOk
    /\ last.in.size = 128

\* what csmUpdateModel computes from the inputs of a buffer
Evaluated(buf) == EngineUpdate(buf).out

\* C9, as written: Model::clone runs one evaluate pass after copying the
\* values, so the clone's drawable data is the evaluation of the copied
\* inputs.
C9_CloneIsEvaluated ==
    (last.op = "Model::clone" /\ last.res.ok)
        => /\ "csmUpdateModel" \in Range(last.calls)
           /\ mbufs[models[last.slot].model].out
                  = Evaluated(mbufs[models[last.slot].model])

\* the setters and update_model
DataOps == {"set_parameter_value", "set_parameter_value_index", "set_part_opacity",
            "set_part_opacity_index", "update_model"}

\* a clone step: the new Model's values and static data are the source's, in
\* a buffer of its own, and the source's buffer is as it was
CloneCopies ==
    (last'.op = "Model::clone" /\ last'.res.ok)
        => LET src == models[last'.in.from]
               new == models'[last'.slot]
           IN  /\ mbufs'[new.mut_data].pv = mbufs[src.mut_data].pv
               /\ mbufs'[new.mut_data].po = mbufs[src.mut_data].po
               /\ new.static_data = src.static_data
               /\ new.model # src.model
               /\ new.mut_data # src.mut_data
               /\ mbufs'[src.model] = mbufs[src.model]

\* a setter or an evaluation on one Model leaves the buffer of every other
\* Model as it was
OthersUntouched ==
    last'.op \in DataOps
        => \A n \in ModelSlots :
               (n # last'.slot /\ models[n].st = "alive")
                   => mbufs'[models[n].model] = mbufs[models[n].model]

\* C10: after a clone the new Model's parameter values, part opacities and
\* static data equal the source's, the two have separate buffers, and a later
\* set_* or update_model on either leaves the other's values unchanged.
C10_CloneEqualAndIndependent == [][CloneCopies /\ OthersUntouched]_vars

\* a Model and its clone whose parameter values came apart by a setter
C10_Witness ==
    /\ last.op \in {"set_parameter_value", "set_parameter_value_index"}
    /\ last.res.value # None
    /\ \E n, m \in ModelSlots :
           /\ n # m
           /\ models[n].st = "alive"
           /\ models[m].st = "alive"
           /\ mbufs[models[n].mut_data].pv # mbufs[models[m].mut_data].pv
           /\ mbufs[models[n].mut_data].po = <<0>>
           /\ mbufs[models[m].mut_data].po = <<0>>

----------------------------------------------------------------------------
(* Properties of update_model *)

\* the five did-change bits of every drawable (VISIBILITY, OPACITY,
\* DRAW_ORDER, RENDER_ORDER and VERTEX_POSITIONS: bits 1 to 5 of the flag
\* byte, above IS_VISIBLE)
DidChangeBits(buf) ==
    [i \in DOMAIN buf.flags |-> (buf.flags[i] % 64) - (buf.flags[i] % 2)]

\* the dynamic drawable data of an instance buffer, as the dynamic accessors
\* of Model read it: out stands for what the engine computed last
DynamicDrawableState(buf) ==
    [flags |-> buf.flags, out |-> buf.out, opacities |-> buf.opacities,
     draw_orders |-> buf.draw_orders, render_orders |-> buf.render_orders,
     positions |-> buf.positions, absent |-> buf.absent]

\* the step is update_model on a Model cloned by the step before it, whose
\* source was evaluated and not written to since
UpdateOfFreshClone ==
    /\ last.op = "Model::clone"
    /\ last.res.ok
    /\ last'.op = "update_model"
    /\ last'.slot = last.slot
    /\ models[last.in.from].st = "alive"
    /\ mbufs[models[last.in.from].model].synced

\* C11: update_model on a fresh clone of an evaluated, unmodified Model leaves
\* the clone's dynamic drawable state (dynamic flags, draw order, render
\* order, opacity and vertex positions of every drawable) equal to the
\* source's current one.
C11_CloneUpdateEqualsSource ==
    [][UpdateOfFreshClone
         => LET src == mbufs'[models[last.in.from].model]
                new == mbufs'[models[last.slot].model]
            IN  /\ DynamicDrawableState(new) = DynamicDrawableState(src)
                /\ DidChangeBits(new) = DidChangeBits(src)
                /\ src = mbufs[models[last.in.from].model]]_vars

\* a Model evaluated on a parameter value away from the one it started
\* with, and its clone evaluated right after the clone was made: the same
\* outputs and the same flags, which are not those of initialization
C11_Witness ==
    /\ last.op = "update_model"
    /\ last.in.fresh
    /\ writes > 0
    /\ \E n, m \in ModelSlots :
           /\ n # m
           /\ m = last.slot
           /\ models[n].st = "alive"
           /\ models[m].st = "alive"
           /\ mbufs[models[n].model].synced
           /\ mbufs[models[m].model].synced
           /\ mbufs[models[n].model].pv # EngineInitialize(1).pv
           /\ DynamicDrawableState(mbufs[models[m].model])
                  = DynamicDrawableState(mbufs[models[n].model])
           /\ DynamicDrawableState(mbufs[models[m].model])
                  # DynamicDrawableState(EngineInitialize(1))

\* the step is the second of two update_model calls in a row on one Model
SecondUpdateInARow ==
    /\ last.op = "update_model"
    /\ last'.op = "update_model"
    /\ last'.slot = last.slot
    /\ last'.in.again

----------------------------------------------------------------------------
(* Properties of the setters *)

ParameterSetters == {"set_parameter_value", "set_parameter_value_index",
                     "parameter_value_index"}
PartSetters == {"set_part_opacity", "set_part_opacity_index", "part_opacity_index"}
AllSetters == ParameterSetters \cup PartSetters

\* the positions (from 1) at which ids holds id
PositionsOf(ids, id) == {i \in 1..Len(ids) : ids[i] = id}

\* C13: set_parameter_value with a known id stores exactly the value given,
\* inside or outside the parameter's range, at the index of the id; with an
\* unknown id it returns None and leaves every parameter value and part
\* opacity as it was.
C13_SetByIdStoresExactly ==
    [][last'.op = "set_parameter_value"
         => LET self == models[last'.slot]
                at == PositionsOf(self.static_data.parameter_ids, last'.in.id)
            IN  IF at # {}
                THEN /\ last'.res.value # None
                     /\ \E i \in at : mbufs'[self.mut_data].pv[i] = last'.in.value
                ELSE /\ last'.res.value = None
                     /\ Values(mbufs'[self.mut_data]) = Values(mbufs[self.mut_data])]_vars

\* parameter A (range 0..1) set to 2 by id and read back as 2
C13_Witness ==
    /\ last.op = "set_parameter_value"
    /\ last.in.id = <<65>>
    /\ last.in.value = 2
    /\ last.res.value = Some(0)
    /\ mbufs[models[last.slot].mut_data].pv = <<2>>

\* the position (from 1) a setter call addresses, 0 if its id is unknown
TargetOf(self, call) ==
    IF call.op \in {"set_parameter_value", "set_part_opacity"}
    THEN LET ids == IF call.op = "set_parameter_value"
                    THEN self.static_data.parameter_ids
                    ELSE self.static_data.part_ids
         IN  IF PositionsOf(ids, call.in.id) = {} THEN 0
             ELSE CHOOSE i \in PositionsOf(ids, call.in.id) :
                      \A j \in PositionsOf(ids, call.in.id) : j <= i
    ELSE call.in.index + 1

\* the slice a setter call writes to
SliceOf(buf, call) == IF call.op \in ParameterSetters THEN buf.pv ELSE buf.po
OtherSliceOf(buf, call) == IF call.op \in ParameterSetters THEN buf.po ELSE buf.pv

\* a setter call that stored its value
Stored(call) == call.op \in AllSetters /\ call.res.ok /\ call.res.value # None

\* a stored value: the old value is returned and only its index changes
ReturnsOld ==
    Stored(last')
        => LET self == models[last'.slot]
               old == mbufs[self.mut_data]
               new == mbufs'[self.mut_data]
               i == TargetOf(self, last')
           IN  /\ last'.res.value = Some(SliceOf(old, last')[i])
               /\ SliceOf(new, last') = [SliceOf(old, last') EXCEPT ![i] = last'.in.value]
               /\ OtherSliceOf(new, last') = OtherSliceOf(old, last')

\* storing the value the call before returned, at the index it addressed,
\* brings back the values read before that call
Restores ==
    (/\ Stored(last)
     /\ Stored(last')
     /\ last'.slot = last.slot
     /\ (last'.op \in ParameterSetters) = (last.op \in ParameterSetters)
     /\ TargetOf(models[last.slot], last') = TargetOf(models[last.slot], last)
     /\ last'.in.value = last.res.value[1])
        => Values(mbufs'[models[last.slot].mut_data]) = last.in.before

\* C14: every successful setter, by id, by checked index or by asserting
\* index, returns the value that was stored at the index and changes no other
\* index; setting the returned value again restores the values as they were.
C14_SettersReturnOld == [][ReturnsOld /\ Restores]_vars

\* a second setter call on an instance of two parameters and two parts that
\* stored a different value at the first index and brought the values back
\* to those of initialization, the second index holding another value all
\* along
C14_Witness ==
    /\ Stored(last)
    /\ writes = 2
    /\ last.op \in ParameterSetters
    /\ last.res.value # Some(last.in.value)
    /\ TargetOf(models[last.slot], last) = 1
    /\ Len(SliceOf(mbufs[models[last.slot].mut_data], last)) = 2
    /\ last.in.before.parameter_values[2] # last.in.before.parameter_values[1]
    /\ last.in.before.parameter_values[2] # last.in.value
    /\ Values(mbufs[models[last.slot].mut_data]) # last.in.before
    /\ Values(mbufs[models[last.slot].mut_data])
           = Values(EngineInitialize(mbufs[models[last.slot].mut_data].asset))

\* C15: set_parameter_value_index and set_part_opacity_index store the value
\* for every index below the count; for every index at or above the count they
\* return None and leave every parameter value and part opacity as it was.
C15_CheckedIndex ==
    [][last'.op \in {"set_parameter_value_index", "set_part_opacity_index"}
         => LET self == models[last'.slot]
                old == mbufs[self.mut_data]
                new == mbufs'[self.mut_data]
            IN  IF last'.in.index < Len(SliceOf(old, last'))
                THEN /\ last'.res.value # None
                     /\ SliceOf(new, last')[last'.in.index + 1] = last'.in.value
                ELSE /\ last'.res.value = None
                     /\ Values(new) = Values(old)]_vars

\* the index equal to the count, refused
C15_Witness ==
    /\ last.op = "set_parameter_value_index"
    /\ last.in.index = Len(mbufs[models[last.slot].mut_data].pv)
    /\ last.res.value = None
    /\ writes > 0

----------------------------------------------------------------------------
(* Properties of the static data *)

\* C16: the static data of a Model (ids, id maps, parameter min / max /
\* default, part parents, constant flags, texture indices, masks, vertex uvs,
\* indices and the three counts) is the same in every state after its
\* construction: no setter, no update_model and no write of the engine into
\* the instance buffer changes it.
C16_StaticDataFrozen ==
    [][\A m \in ModelSlots :
           (models[m].st = "alive" /\ models'[m].st = "alive")
               => /\ models'[m].static_data = models[m].static_data
                  /\ parameter_count(models'[m]) = parameter_count(models[m])
                  /\ part_count(models'[m]) = part_count(models[m])
                  /\ drawable_count(models'[m]) = drawable_count(models[m])]_vars

\* a Model whose parameter value was written and which was evaluated after
\* the write, with its default value still the one extracted at construction
C16_Witness ==
    /\ last.op = "update_model"
    /\ writes > 0
    /\ models[last.slot].st = "alive"
    /\ mbufs[models[last.slot].model].pv
           # models[last.slot].static_data.parameter_default_values
    /\ mbufs[models[last.slot].model].synced
    /\ models[last.slot].static_data.parameter_default_values = <<0>>

----------------------------------------------------------------------------
(* Facet extraction: what Model::new answers to what the engine reports *)

\* this step is a Model::new call that consumed the Moc value of slot b and
\* got as far as StaticData::new
ExtractionOn(b) ==
    /\ last'.op = "Model::new"
    /\ handles'[b] = handles[b] - 1
    /\ "StaticData::new" \in Range(last'.calls)

\* what the engine reports for the instance made from the Moc of slot b
Reported(b) == Assets[mocs[b].asset]

\* the call of this step failed and left no Model
NoModelReturned ==
    /\ ~last'.res.ok
    /\ models'[last'.slot].st = "failed"
    /\ mbufs' = mbufs

Domains == <<"parameter", "part", "drawable">>
CountOf(a, k) == <<a.parameterCount, a.partCount, a.drawableCount>>[k]

\* C17 as the spec states it: for each of the three domains, a negative
\* element count makes Model::new fail with the invalid-count error naming
\* that domain, and no Model is returned.
C17_NegativeCountNamesDomainAsWritten ==
    [][\A b \in MocSlots : ExtractionOn(b) =>
         \A k \in 1..3 :
            CountOf(Reported(b), k) < 0 =>
                /\ last'.res = Err("InvalidDataCount", <<Domains[k]>>)
                /\ NoModelReturned]_vars

\* C17, amended: a negative element count makes Model::new fail with an
\* invalid-count error and no Model is returned; the error names the first
\* domain, in the order parameter, part, drawable, whose count is negative.
C17_NegativeCountNamesDomain ==
    [][\A b \in MocSlots : ExtractionOn(b) =>
         \A k \in 1..3 :
            (/\ CountOf(Reported(b), k) < 0
             /\ \A j \in 1..(k - 1) : CountOf(Reported(b), j) >= 0) =>
                /\ last'.res = Err("InvalidDataCount", <<Domains[k]>>)
                /\ NoModelReturned]_vars

\* a Model::new call failed on the count of the third domain
C17_Witness ==
    /\ last.op = "Model::new"
    /\ last.res = Err("InvalidDataCount", <<"drawable">>)
    /\ models[last.slot].st = "failed"

\* the part parent indices the engine reports, one for each part
ReportedParents(a) == [i \in 1..a.partCount |-> a.partParentPartIndices.at[i]]

\* C18 as the spec states it: every part parent recorded in a constructed
\* instance is Root or Parent(i) with i < part_count, and an engine parent
\* index below -1 or at or above part_count makes Model::new fail.
C18_ParentWithinPartCount ==
    [][/\ \A m \in ModelSlots : models'[m].st = "alive" =>
              \A p \in Range(models'[m].static_data.part_parent_indices) :
                 \/ p = <<"Root">>
                 \/ /\ p[1] = "Parent"
                    /\ p[2] < part_count(models'[m])
       /\ \A b \in MocSlots : ExtractionOn(b) =>
              ((\E i \in Range(ReportedParents(Reported(b))) :
                    i < -1 \/ i >= Reported(b).partCount)
                 => NoModelReturned)]_vars

\* the engine's answers for asset a pass every check StaticData::new makes
\* before the constant flags of the drawables
FlagChecksReached(a) ==
    /\ \A k \in 1..3 : CountOf(a, k) >= 0
    /\ \A f \in {"parameterIds", "parameterMinimumValues", "parameterMaximumValues",
                 "parameterDefaultValues", "partIds", "partParentPartIndices",
                 "drawableIds", "drawableConstantFlags"} : ~a[f].null
    /\ \A i \in 1..a.parameterCount : ~a.parameterIds.at[i].null
    /\ \A i \in 1..a.partCount : ~a.partIds.at[i].null
    /\ \A i \in 1..a.drawableCount : ~a.drawableIds.at[i].null
    /\ \A i \in Range(ReportedParents(a)) : i >= -1

\* a flag byte with only the bits 1, 2, 4 and 8
OnlyConstantBits(f) == f \in 0..(1 + 2 + 4 + 8)

\* an index count that is negative or not a multiple of 3
BadIndexCount(c) == c < 0 \/ c % 3 # 0

\* ... and every check before the index counts of the drawables, and the
\* index pointer of every drawable before the first bad index count
IndexChecksReached(a) ==
    /\ FlagChecksReached(a)
    /\ \A i \in 1..a.drawableCount : OnlyConstantBits(a.drawableConstantFlags.at[i])
    /\ \A f \in {"drawableTextureIndices", "drawableMaskCounts", "drawableMasks",
                 "drawableVertexCounts", "drawableVertexUvs", "drawableIndexCounts",
                 "drawableIndices"} : ~a[f].null
    /\ \A i \in 1..a.drawableCount :
          /\ a.drawableMaskCounts.at[i] >= 0
          /\ ~a.drawableMasks.at[i].null
          /\ a.drawableVertexCounts.at[i] >= 0
          /\ ~a.drawableVertexUvs.at[i].null
          /\ (\A j \in 1..i : ~BadIndexCount(a.drawableIndexCounts.at[j]))
                => ~a.drawableIndices.at[i].null

\* some drawable of asset a, at any position, has a bad index count
SomeBadIndexCount(a) ==
    \E i \in 1..a.drawableCount : BadIndexCount(a.drawableIndexCounts.at[i])

\* every index list held by a Model has a length of 0 or a multiple of 3
IndexListsInThrees ==
    \A m \in ModelSlots : models'[m].st = "alive" =>
        \A l \in Range(models'[m].static_data.drawable_indices) : Len(l) % 3 = 0

\* C19 as the spec states it: a drawable at any position whose index count
\* is negative or not a multiple of 3 makes Model::new fail with the
\* invalid-count error for drawable indices and no Model is returned; every
\* index list of a constructed instance has a length of 0 or a multiple of 3.
C19_BadIndexCountRejectedAsWritten ==
    [][/\ IndexListsInThrees
       /\ \A b \in MocSlots : (ExtractionOn(b) /\ SomeBadIndexCount(Reported(b))) =>
              /\ last'.res = Err("InvalidDataCount", <<"drawable indices">>)
              /\ NoModelReturned]_vars

\* C19, amended: such a drawable makes Model::new fail and no Model is
\* returned; the error is the invalid-count error for drawable indices when
\* the engine's answers pass every check made before the index counts.
\* Every index list of a constructed instance has a length of 0 or a
\* multiple of 3.
C19_BadIndexCountRejected ==
    [][/\ IndexListsInThrees
       /\ \A b \in MocSlots : (ExtractionOn(b) /\ SomeBadIndexCount(Reported(b))) =>
              /\ NoModelReturned
              /\ IndexChecksReached(Reported(b)) =>
                    last'.res = Err("InvalidDataCount", <<"drawable indices">>)]_vars

\* a Model::new call failed on an index count
C19_Witness ==
    /\ last.op = "Model::new"
    /\ last.res = Err("InvalidDataCount", <<"drawable indices">>)
    /\ models[last.slot].st = "failed"
    /\ mbufs[last.slot].st = "none"

\* the positions of the drawables of asset a whose constant flag byte sets a
\* bit outside the four defined ones
BadFlagPositions(a) ==
    {i \in 1..a.drawableCount : ~OnlyConstantBits(a.drawableConstantFlags.at[i])}

\* every constant flag value held by a Model has only defined bits
HeldFlagsDefined ==
    \A m \in ModelSlots : models'[m].st = "alive" =>
        \A f \in Range(models'[m].static_data.drawable_constant_flags) :
            OnlyConstantBits(f)

\* C20 as the spec states it: a drawable constant flag byte with a bit
\* outside the four defined ones makes Model::new fail with
\* InvalidFlags("constant", byte), byte being such a byte; every constant
\* flag value held by a constructed instance has only defined bits.
C20_UndefinedFlagBitsRejectedAsWritten ==
    [][/\ HeldFlagsDefined
       /\ \A b \in MocSlots :
              (ExtractionOn(b) /\ BadFlagPositions(Reported(b)) # {}) =>
                 /\ NoModelReturned
                 /\ \E i \in BadFlagPositions(Reported(b)) :
                       last'.res = Err("InvalidFlags",
                           <<"constant", Reported(b).drawableConstantFlags.at[i]>>)]_vars

\* C20, amended: such a byte makes Model::new fail and no Model is returned;
\* when the engine's answers pass every check made before the constant flags
\* the error is InvalidFlags("constant", byte) with the first such byte.
\* Every constant flag value held by a constructed instance has only defined
\* bits.
C20_UndefinedFlagBitsRejected ==
    [][/\ HeldFlagsDefined
       /\ \A b \in MocSlots :
              (ExtractionOn(b) /\ BadFlagPositions(Reported(b)) # {}) =>
                 /\ NoModelReturned
                 /\ FlagChecksReached(Reported(b)) =>
                       \E i \in BadFlagPositions(Reported(b)) :
                          /\ \A j \in BadFlagPositions(Reported(b)) : i <= j
                          /\ last'.res = Err("InvalidFlags",
                               <<"constant", Reported(b).drawableConstantFlags.at[i]>>)]_vars

\* a Model::new call failed on the constant flag byte 20 of a second drawable
C20_Witness ==
    /\ last.op = "Model::new"
    /\ last.res = Err("InvalidFlags", <<"constant", 20>>)
    /\ models[last.slot].st = "failed"

----------------------------------------------------------------------------
(* CubismVersion *)

\* (major << 24) + (minor << 16) + patch in u32 arithmetic, as two limbs
Recomposed(major, minor, patch) ==
    <<(major * 256 + minor + (patch \div 65536)) % 65536, patch % 65536>>

\* C23: major, minor and patch are the bits 31-24, 23-16 and 15-0 of the
\* version: they fit 8, 8 and 16 bits and
\* version = (major << 24) + (minor << 16) + patch.
C23_VersionDecomposed ==
    last.op = "CubismVersion::version" =>
        LET v == last.res.value
        IN  /\ v.major \in 0..255
            /\ v.minor \in 0..255
            /\ v.patch \in 0..65535
            /\ Recomposed(v.major, v.minor, v.patch) = v.version

\* the version 4.3.65535 was decomposed
C23_Witness ==
    /\ last.op = "CubismVersion::version"
    /\ last.res.value.version = <<1027, 65535>>
    /\ last.res.value.major = 4
    /\ last.res.value.minor = 3

----------------------------------------------------------------------------
(* update_model : the engine calls *)

\* C25: update_model calls the engine's reset of the dynamic flags and then
\* the engine's update, each once and in that order, on the instance buffer
\* of the Model and on no other; no operation runs the engine's update
\* without the reset immediately before it.
C25_ResetThenUpdate ==
    [][/\ last'.op = "update_model" =>
            /\ last'.calls = <<"csmResetDrawableDynamicFlags", "csmUpdateModel">>
            /\ \A n \in ModelSlots :
                  IF n = models[last'.slot].model
                  THEN mbufs'[n] = [EngineUpdate(EngineResetDynamicFlags(mbufs[n]))
                                      EXCEPT !.synced = TRUE]
                  ELSE mbufs'[n] = mbufs[n]
       /\ \A i \in 1..Len(last'.calls) :
            last'.calls[i] = "csmUpdateModel" =>
                /\ i > 1
                /\ last'.calls[i - 1] = "csmResetDrawableDynamicFlags"]_vars

\* update_model ran on the second of two Models after a write to it, the
\* first one being left as it was
C25_Witness ==
    /\ last.op = "update_model"
    /\ last.slot = 2
    /\ models[1].st = "alive"
    /\ ~mbufs[models[1].model].synced
    /\ mbufs[models[2].model].synced
    /\ writes > 0

----------------------------------------------------------------------------
(* Identifiers *)

\* the identifier list a lookup operation searches
IdsSearched(self, op) ==
    CASE op = "get_parameter_id_index" -> self.static_data.parameter_ids
      [] op = "get_part_id_index" -> self.static_data.part_ids
      [] op = "get_drawable_id_index" -> self.static_data.drawable_ids

IdLookups == {"get_parameter_id_index", "get_part_id_index", "get_drawable_id_index"}

\* C26 as the spec states it: when an identifier is at two or more positions
\* of a domain's identifier list, the lookup by identifier returns the index
\* of its first occurrence.
C26_FirstOccurrenceWins ==
    last.op \in IdLookups =>
        LET at == PositionsOf(IdsSearched(models[last.slot], last.op), last.in.id)
        IN  Cardinality(at) >= 2 =>
                \E i \in at : /\ \A j \in at : i <= j
                              /\ last.res.value = Some(i - 1)

\* the bytes are UTF-8: sequences of one to four bytes, none overlong, none
\* a surrogate, none above U+10FFFF
RECURSIVE WellFormed(_)
WellFormed(cstr) ==
    IF cstr = <<>> THEN TRUE
    ELSE IF Head(cstr) < 128 THEN WellFormed(Tail(cstr))
    ELSE IF Head(cstr) \in 194..223
    THEN /\ Len(cstr) >= 2
         /\ cstr[2] \in 128..191
         /\ WellFormed(SubSeq(cstr, 3, Len(cstr)))
    ELSE IF Head(cstr) \in 224..239
    THEN /\ Len(cstr) >= 3
         /\ cstr[2] \in 128..191
         /\ Head(cstr) = 224 => cstr[2] >= 160
         /\ Head(cstr) = 237 => cstr[2] <= 159
         /\ cstr[3] \in 128..191
         /\ WellFormed(SubSeq(cstr, 4, Len(cstr)))
    ELSE /\ Head(cstr) \in 240..244
         /\ Len(cstr) >= 4
         /\ cstr[2] \in 128..191
         /\ Head(cstr) = 240 => cstr[2] >= 144
         /\ Head(cstr) = 244 => cstr[2] <= 143
         /\ cstr[3] \in 128..191
         /\ cstr[4] \in 128..191
         /\ WellFormed(SubSeq(cstr, 5, Len(cstr)))

\* the identifier array p of n identifiers is null, has a null element or an
\* element that is not UTF-8
BadIds(p, n) ==
    \/ p.null
    \/ \E i \in 1..n : p.at[i].null
    \/ \E i \in 1..n : ~WellFormed(p.at[i].at)

\* C27 as the spec states it: a null identifier array, a null identifier
\* pointer or an identifier that is not valid text makes Model::new fail
\* with GetDataError, and no constructed instance holds a substituted
\* identifier.
C27_BadIdsRejected ==
    [][/\ \A b \in MocSlots :
            (/\ ExtractionOn(b)
             /\ \/ BadIds(Reported(b).parameterIds, Reported(b).parameterCount)
                \/ BadIds(Reported(b).partIds, Reported(b).partCount)
                \/ BadIds(Reported(b).drawableIds, Reported(b).drawableCount))
              => /\ NoModelReturned
                 /\ last'.res.kind = "GetDataError"
       /\ \A m \in ModelSlots : models'[m].st = "alive" =>
            \A id \in Range(models'[m].static_data.parameter_ids)
                      \cup Range(models'[m].static_data.part_ids)
                      \cup Range(models'[m].static_data.drawable_ids) :
                ReplacementCharacter \notin Range(id)]_vars

----------------------------------------------------------------------------
(* Reads of the dynamic drawable data *)

\* the reads of one dynamic drawable
ElementReads == {"get_dynamic_drawable", "dynamic_drawable", "dynamic_drawable_index"}

\* the Model a read was made on and the instance buffer it read
ReadModel(call) == models[call.slot]
ReadBuffer(call) == mbufs[models[call.slot].model]

\* the positions (from 1) of the drawable the read call asks for: none when
\* its index is out of range or its identifier unknown
ElementAsked(call) ==
    IF call.op = "dynamic_drawable"
    THEN PositionsOf(ReadModel(call).static_data.drawable_ids, call.in.id)
    ELSE {i \in 1..drawable_count(ReadModel(call)) : i = call.in.index + 1}

\* a flag byte with only the six bits of DynamicFlags
OnlyDynamicBits(f) == f \in 0..(1 + 2 + 4 + 8 + 16 + 32)

\* the positions of the flag bytes of a buffer with undefined bits
BadDynamicFlags(buf) == {i \in DOMAIN buf.flags : ~OnlyDynamicBits(buf.flags[i])}

\* C21 as the spec states it: the read of a dynamic drawable accepts an
\* engine opacity of exactly 0 - 1e-4 and of exactly 1 + 1e-4 and returns an
\* error for an opacity of 0 - 2e-4 and of 1 + 2e-4 (opacities in units of
\* 1e-4; the dynamic flags being valid).
C21_OpacityBounds ==
    (/\ last.op \in ElementReads
     /\ BadDynamicFlags(ReadBuffer(last)) = {}
     /\ ReadBuffer(last).absent = {}) =>
        \A i \in ElementAsked(last) :
            /\ ReadBuffer(last).opacities[i] \in {0 - 1, 10000 + 1} => last.res.ok
            /\ ReadBuffer(last).opacities[i] \in {0 - 2, 10000 + 2} => ~last.res.ok

\* the reads that fetch the dynamic flags
FlagReads == ElementReads \cup {"drawable_dynamic_flags"}

\* C28: every read of the dynamic flags validates the bytes the engine
\* hands out at that moment.  While a byte has undefined bits the read
\* returns InvalidFlags("dynamic", byte), the first such byte; the call
\* changes nothing of the Model or its buffer, other accessors
\* (drawable_opacities) still answer, and once the buffer holds defined bits
\* only, as after an update_model that produced them, the read succeeds.
\* (An accessor of the engine that answers a null pointer fails the reads
\* that use it with GetDataError, whatever the flags.)
C28_DynamicFlagsRevalidated ==
    [][/\ (/\ last'.op \in FlagReads
           /\ "drawable dynamic flags" \notin ReadBuffer(last').absent
           /\ last'.op \in ElementReads => ElementAsked(last') # {}) =>
             /\ <<models, mbufs, mocs, handles>>' = <<models, mbufs, mocs, handles>>
             /\ IF BadDynamicFlags(ReadBuffer(last')) = {}
                THEN /\ ReadBuffer(last').absent = {} => last'.res.ok
                     /\ last'.op = "drawable_dynamic_flags" => last'.res.ok
                     /\ ~last'.res.ok => last'.res.kind = "GetDataError"
                ELSE \E i \in BadDynamicFlags(ReadBuffer(last')) :
                        /\ \A j \in BadDynamicFlags(ReadBuffer(last')) : i <= j
                        /\ last'.res = Err("InvalidFlags",
                                           <<"dynamic", ReadBuffer(last').flags[i]>>)
       /\ (/\ last'.op = "drawable_opacities"
           /\ "drawable opacities" \notin ReadBuffer(last').absent) => last'.res.ok]_vars

\* the read of the first drawable failed on the flag byte 193 of the second
C28_Witness ==
    /\ last.op = "get_dynamic_drawable"
    /\ last.in.index = 0
    /\ last.res = Err("InvalidFlags", <<"dynamic", 193>>)
    /\ models[last.slot].st = "alive"
    /\ ReadBuffer(last).flags = <<37, 193>>

\* the number of elements of the domain a call on a collection value or an
\* iterator was about
CountAsked(call) == CountIn(models[call.slot], DomainOf(call.in.kind))

\* the indices yielded so far by calls of one direction, in the order yielded
YieldedBy(op) ==
    LET ys == SelectSeq(iter.yields, LAMBDA y : y[1] = op)
    IN  [i \in 1..Len(ys) |-> ys[i][2]]

\* C30: whatever the interleaving of next and next_back on a collection
\* value or an iterator over n elements, start <= end in every state; no
\* index is yielded twice and every yielded index is in 0..n-1, next
\* yielding 0, 1, ... and next_back yielding n-1, n-2, ...; size_hint
\* answers the number of elements not yet yielded; and a call of next or
\* next_back returns None exactly when n elements were yielded before it.
C30_EachIndexYieldedOnce ==
    /\ iter.kind \in TraitKinds \cup IterKinds =>
          LET n == CountIn(models[iter.model], DomainOf(iter.kind))
          IN  /\ iter.start <= iter.end
              /\ \A i \in 1..Len(iter.yields) : iter.yields[i][2] \in 0..(n - 1)
              /\ \A i, j \in 1..Len(iter.yields) :
                    i # j => iter.yields[i][2] # iter.yields[j][2]
              /\ \A i \in 1..Len(YieldedBy("next")) : YieldedBy("next")[i] = i - 1
              /\ \A i \in 1..Len(YieldedBy("next_back")) :
                    YieldedBy("next_back")[i] = n - i
    /\ last.op = "size_hint" =>
          last.res = Ok(<<CountAsked(last) - last.in.yielded,
                          Some(CountAsked(last) - last.in.yielded)>>)
    /\ last.op \in {"next", "next_back"} =>
          (last.res.value = None <=> last.in.yielded = CountAsked(last))

\* the three parameters were yielded from both ends and the call after
\* them returned None
C30_Witness ==
    /\ iter.kind = "StaticParameters"
    /\ Len(iter.yields) = 3
    /\ Len(YieldedBy("next")) = 2
    /\ Len(YieldedBy("next_back")) = 1
    /\ last.op = "next_back"
    /\ last.res.value = None

\* the elements a get_all returned
Collected(call) ==
    IF DomainOf(call.in.kind) = "dynamic" THEN call.res.value.value ELSE call.res.value

\* C24 as the spec states it: get_all on a collection value returns all
\* count() elements of its domain, in index order 0..count-1, whatever calls
\* of next or next_back were made on that value before.
C24_GetAllReturnsEveryElement ==
    last.op = "get_all" =>
        /\ Len(Collected(last)) = CountAsked(last)
        /\ \A i \in 1..Len(Collected(last)) : Collected(last)[i].index = i - 1

\* the checked fetches by index of the static domains
IndexFetches == {"get_static", "static_index", "get_index"}

\* the static domain a fetch by index was made in, if any
FetchDomain(call) ==
    IF call.op = "get_index" THEN DomainOf(call.in.kind) ELSE call.in.domain

\* C22: for every Model and each static collection, the checked fetch by
\* index (get_static_parameter and its like, static_parameter_index and its
\* like, ModelData::get_index) succeeds for every index below count(),
\* returning the element whose index field is that index, and fails (None
\* from the first, a panic on the assertion from the others) for the index
\* count() and every larger one.
C22_CheckedIndexFetch ==
    (last.op \in IndexFetches /\ FetchDomain(last) \in StaticDomains) =>
        LET n == CountIn(models[last.slot], FetchDomain(last))
        IN  IF last.op = "get_static"
            THEN IF last.in.index < n
                 THEN /\ last.res.value # None
                      /\ last.res.value[1].index = last.in.index
                 ELSE last.res.value = None
            ELSE IF last.in.index < n
                 THEN /\ last.res.ok
                      /\ last.res.value.index = last.in.index
                 ELSE /\ ~last.res.ok
                      /\ last.res.kind = "panic"

\* get_index(2) on the static drawables of a Model with two drawables
\* panicked
C22_Witness ==
    /\ last.op = "get_index"
    /\ last.in.kind = "StaticDrawables"
    /\ last.in.index = 2
    /\ drawable_count(models[last.slot]) = 2
    /\ models[last.slot].static_data.drawable_texture_indices = <<0, -1>>
    /\ ~last.res.ok

\* the identifiers of a domain, in index order
IdsIn(self, domain) ==
    CASE domain = "parameter" -> self.static_data.parameter_ids
      [] domain = "part" -> self.static_data.part_ids
      [] domain \in {"drawable", "dynamic"} -> self.static_data.drawable_ids

\* the element a get returned
Got(call) ==
    IF DomainOf(call.in.kind) = "dynamic" THEN call.res.value.value ELSE call.res.value

\* C29: for an identifier that is in the domain of a collection, index(id)
\* returns Some(i) with i < count() and ids[i] = id, and get(id) returns the
\* element at the index that index(id) returns; for an identifier that is
\* not, index(id) returns None and get(id) panics, returning no element.
C29_IndexAndGetAgree ==
    /\ last.op = "index" =>
          LET ids == IdsIn(models[last.slot], DomainOf(last.in.kind))
              i == last.res.value
          IN  IF PositionsOf(ids, last.in.id) # {}
              THEN /\ i # None
                   /\ i[1] < CountAsked(last)
                   /\ i[1] >= 0
                   /\ ids[i[1] + 1] = last.in.id
              ELSE i = None
    /\ last.op = "get" =>
          LET ids == IdsIn(models[last.slot], DomainOf(last.in.kind))
              i == IdIndexIn(models[last.slot], DomainOf(last.in.kind), last.in.id)
          IN  IF PositionsOf(ids, last.in.id) # {}
              THEN /\ last.res.ok
                   /\ Got(last).index = i[1]
                   /\ Got(last).id = last.in.id
              ELSE /\ ~last.res.ok
                   /\ last.res.kind = "panic"

\* get("E") on the static drawables returned the second drawable, whose
\* texture index and mask the engine reports as -1 and the element holds as
\* usize
C29_Witness ==
    /\ last.op = "get"
    /\ last.in.kind = "StaticDrawables"
    /\ last.in.id = <<69>>
    /\ last.res.ok
    /\ Got(last).index = 1
    /\ models[last.slot].static_data.drawable_texture_indices[2] = -1
    /\ Got(last).texture_index = <<65535, 65535, 65535, 65535>>
    /\ Got(last).masks = << <<65535, 65535, 65535, 65535>> >>
    /\ Got(last).indices[1] = <<0, 0, 0, 0>>

====
